---------------------------- MODULE Spec2Model ----------------------------
(***************************************************************************)
(* State-machine model of the VoiceMemos backend (src/backend/main.py):    *)
(* the account store, the activation codes, the external voice directory,  *)
(* the process-wide default-voice cache, the tokens the clients hold and   *)
(* the request handlers register, login, logout, force-logout,             *)
(* reset-password, update-settings, character-usage,                       *)
(* generate-audio-cloned, generate-voice-clone and delete-voice-clone.  A  *)
(* handler is a sequence of steps, one step per store operation or         *)
(* external call, so that requests can interleave where the code lets      *)
(* them.                                                                   *)
(***************************************************************************)
EXTENDS Integers, Sequences, FiniteSets, TLC

(***************************************************************************)
(* Bounds of the model.                                                    *)
(***************************************************************************)
MaxTicks == 2
MaxAudio == 2
MaxClones == 2
MaxVoices == 3

(***************************************************************************)
(* Program constants.                                                      *)
(***************************************************************************)
MONTHLY_CHAR_LIMIT == 5000
InappropriateFallbackLenEn == 94
InappropriateFallbackLenEs == 102
ThoughtFallbackBaseLenEn == 90
ThoughtFallbackBaseLenEs == 110
TokenLifetimeHours == 24

(***************************************************************************)
(* Python values.  None and the empty string are both falsy and the code   *)
(* only ever tests them with `if x` / `if not x`, so one value stands for  *)
(* both.  A datetime is modelled by the hours since the start of year 0,   *)
(* in a calendar of months of HoursPerMonth hours; the handlers read only  *)
(* its month and its year, and add hours to it.                            *)
(***************************************************************************)
NoVoice == ""
NoDate == -1
NoUid == "none"

HoursPerMonth == 720

month(t) == ((t \div HoursPerMonth) % 12) + 1
year(t) == t \div (12 * HoursPerMonth)

(***************************************************************************)
(* Text is a sequence of one-character strings.                            *)
(***************************************************************************)
UpperToLower ==
    ("A" :> "a" @@ "B" :> "b" @@ "C" :> "c" @@ "D" :> "d" @@ "E" :> "e" @@ "F" :> "f" @@
     "G" :> "g" @@ "H" :> "h" @@ "I" :> "i" @@ "J" :> "j" @@ "K" :> "k" @@ "L" :> "l" @@
     "M" :> "m" @@ "N" :> "n" @@ "O" :> "o" @@ "P" :> "p" @@ "Q" :> "q" @@ "R" :> "r" @@
     "S" :> "s" @@ "T" :> "t" @@ "U" :> "u" @@ "V" :> "v" @@ "W" :> "w" @@ "X" :> "x" @@
     "Y" :> "y" @@ "Z" :> "z")

\* str.lower()
lower(text) ==
    [i \in 1..Len(text) |->
        IF text[i] \in DOMAIN UpperToLower THEN UpperToLower[text[i]] ELSE text[i]]

\* the `in` operator on strings: pattern occurs in text as a contiguous run
contains(text, pattern) ==
    \E i \in 1..(Len(text) - Len(pattern) + 1) :
        SubSeq(text, i, i + Len(pattern) - 1) = pattern

RECURSIVE lstrip(_)
lstrip(text) ==
    IF text # <<>> /\ Head(text) = " " THEN lstrip(Tail(text)) ELSE text

RECURSIVE rstrip(_)
rstrip(text) ==
    IF text # <<>> /\ text[Len(text)] = " "
    THEN rstrip(SubSeq(text, 1, Len(text) - 1))
    ELSE text

\* str.strip()
strip(text) == rstrip(lstrip(text))

inappropriate_patterns ==
    { <<"s","e","x">>,
      <<"p","o","r","n">>,
      <<"n","u","d","e">>,
      <<"n","a","k","e","d">>,
      <<"x","x","x">>,
      <<"d","i","l","d","o">>,
      <<"v","i","b","r","a","t","o","r">>,
      <<"n","s","f","w">>,
      <<"f","u","c","k">>,
      <<"s","h","i","t">>,
      <<"a","s","s">>,
      <<"d","i","c","k">>,
      <<"c","o","c","k">>,
      <<"p","u","s","s","y">>,
      <<"c","u","n","t">>,
      <<"w","h","o","r","e">>,
      <<"b","i","t","c","h">>,
      <<"s","l","u","t">>,
      <<"h","o","r","n","y">>,
      <<"m","a","s","t","u","r","b","a","t">>,
      <<"o","r","g","a","s">>,
      <<"n","a","z","i">>,
      <<"k","i","l","l">>,
      <<"m","u","r","d","e","r">>,
      <<"s","u","i","c","i","d","e">>,
      <<"r","a","p","e">>,
      <<"r","a","c","i","s","t">>,
      <<"n","-","w","o","r","d">>,
      <<"n","i","g","g","e","r">> }

_is_likely_inappropriate_case_sensitive(text) ==
    IF text = <<>>
    THEN FALSE
    ELSE \E pattern \in inappropriate_patterns : contains(text, pattern)

_is_likely_inappropriate(text) ==
    IF text = <<>>
    THEN FALSE
    ELSE \E pattern \in inappropriate_patterns : contains(lower(text), pattern)

(***************************************************************************)
(* The texts a generate-audio request can hand to the synthesizer.  Only   *)
(* the kind of a text, its language and its length matter to the handler.  *)
(***************************************************************************)
\* user_language.lower().startswith("es") or user_language.lower() == "spanish"
is_spanish(language) == language \in {"es", "spanish"}

inappropriate_fallback_text(language) ==
    [kind |-> "inappropriate_fallback", spanish |-> is_spanish(language),
     len |-> IF is_spanish(language) THEN InappropriateFallbackLenEs
                                      ELSE InappropriateFallbackLenEn]

\* fallback_message_template.format(value=value, topic=topic)
fallback_message(language, topic, value) ==
    [kind |-> "thought_fallback", spanish |-> is_spanish(language),
     len |-> (IF is_spanish(language) THEN ThoughtFallbackBaseLenEs
                                       ELSE ThoughtFallbackBaseLenEn)
             + Len(value) + Len(topic)]

\* the text an answer of the generator carries, after .strip()
generated(n) == [kind |-> "generated", spanish |-> FALSE, len |-> n]

NoText == [kind |-> "none", spanish |-> FALSE, len |-> 0]

(***************************************************************************)
(* Input domains.                                                          *)
(***************************************************************************)
Procs == {"r1", "r2"}
UIDs == {"u1", "u2", "u3"}
Languages == {"english", "spanish"}
InitCounts == {0, 4999, 5000}
Topics == { <<"t","r","i","p">>, <<"S","e","X","y">>, <<" ","a","S","s">>, <<" ">> }
Values == { <<"R","o","m","e">>, <<"K","i","L","L">> }
GenLens == {0, 7}
TtsOutcomes == {"ok", "http_error", "exception"}
TtsErrorStatus == 422
Alice == <<"a","l">>
Bob == <<"b","o">>
Carol == <<"c","a">>
AliceMail == <<"a","@","x">>
BobMail == <<"b","@","x">>
CarolMail == <<"c","@","x">>
Usernames == {Alice, Bob}
Emails == {AliceMail, BobMail}
Passwords == {"pw1", "bad"}
LoginNames == {Carol, CarolMail, Alice}
ActivationCodes == {"K0", "K1", "K2", "K9"}
AudioFiles == {"sample", "missing", "no_filename"}
CloneOutcomes == {"ok", "http_error", "no_voice_id", "exception"}

(***************************************************************************)
(* State.                                                                  *)
(*   users     users_collection: _id -> account document                   *)
(*   codes     activation_codes_collection: code -> document               *)
(*   voices    the voice directory of the external speech service, in the  *)
(*             order GET /v1/voices lists it                               *)
(*   ALEX_LATORRE_VOICE_ID   the process-wide default-voice cache          *)
(*   GOOGLE_API_KEY          whether the generator's key is configured     *)
(*   phase     "starting" while the module is being loaded, then "serving" *)
(*   tokens    the tokens login has handed to clients                      *)
(*   now       the clock (datetime.utcnow()), in hours                     *)
(*   ticks     how often the clock has advanced                            *)
(*   nAudio    generate-audio requests accepted so far                     *)
(*   nClones   voices the cloning service has created so far               *)
(*   req       the requests in flight: per worker, the handler it runs     *)
(*             (op), its position (pc), the account of its token (uid),    *)
(*             g.current_user (cur), its inputs (in), its local variables  *)
(*             (loc) and its response (status); and, for stating           *)
(*             properties, the clock (at), the accounts (pre) and the      *)
(*             activation codes (pre_codes) at its start                   *)
(***************************************************************************)
VARIABLES users, codes, voices, ALEX_LATORRE_VOICE_ID, GOOGLE_API_KEY, phase,
          tokens, now, ticks, nAudio, nClones, req

vars == <<users, codes, voices, ALEX_LATORRE_VOICE_ID, GOOGLE_API_KEY, phase,
          tokens, now, ticks, nAudio, nClones, req>>

NoUser ==
    [username |-> <<>>, email |-> <<>>, password |-> <<"bcrypt", "">>,
     loggedIn |-> FALSE, charCount |-> 0, lastCharReset |-> NoDate,
     voice_clone_id |-> NoVoice, language |-> "english",
     voice_similarity |-> 85, stability |-> 70,
     add_background_sound |-> TRUE, background_volume |-> 50]

Idle ==
    [op |-> "idle", pc |-> "idle", uid |-> NoUid, status |-> 0, at |-> 0,
     cur |-> NoUser, pre |-> <<>>, pre_codes |-> <<>>, in |-> <<>>,
     loc |-> <<>>]

Free(p) == phase = "serving" /\ req[p].pc \in {"idle", "done"}

\* return jsonify(...), status
Respond(p, status, loc) ==
    req' = [req EXCEPT ![p].pc = "done", ![p].status = status, ![p].loc = loc]

Goto(p, pc, loc) ==
    req' = [req EXCEPT ![p].pc = pc, ![p].loc = loc]

(***************************************************************************)
(* The default voice: get_alex_latorre_voice_id.                           *)
(***************************************************************************)
AlexLatorre == <<"a","l","e","x"," ","l","a","t","o","r","r","e">>
AlexLatorreEn == <<"a","l","e","x","l","a","t","o","r","r","e","_","e","n">>
DefaultName == <<"d","e","f","a","u","l","t">>

tier_match_cloned_first(tier, voice) ==
    CASE tier = 1 -> lower(voice.name) = AlexLatorre
      [] tier = 2 -> voice.category = "cloned" /\ lower(voice.name) # DefaultName
      [] tier = 3 -> lower(voice.name) = AlexLatorreEn
      [] OTHER    -> voice.category = "cloned"

\* the test of each of the four loops over voices_data['voices']
tier_match(tier, voice) ==
    CASE tier = 1 -> lower(voice.name) = AlexLatorre
      [] tier = 2 -> lower(voice.name) = AlexLatorreEn
      [] tier = 3 -> voice.category = "cloned" /\ lower(voice.name) # DefaultName
      [] OTHER    -> voice.category = "cloned"

\* one loop: the voice_id of the first voice that passes the tier's test
RECURSIVE first_voice(_, _)
first_voice(vs, tier) ==
    IF vs = <<>> THEN NoVoice
    ELSE IF tier_match(tier, Head(vs)) THEN Head(vs).voice_id
    ELSE first_voice(Tail(vs), tier)

\* the four loops in order; None when no loop finds a voice
RECURSIVE lookup_from(_, _)
lookup_from(vs, tier) ==
    IF tier > 4 THEN NoVoice
    ELSE IF first_voice(vs, tier) # NoVoice THEN first_voice(vs, tier)
    ELSE lookup_from(vs, tier + 1)

lookup_voice(vs) == lookup_from(vs, 1)

\* The value get_alex_latorre_voice_id() returns: the cache when it is set,
\* else the lookup's result when the directory answers, else None.
get_alex_latorre_voice_id(answers) ==
    IF ALEX_LATORRE_VOICE_ID # NoVoice THEN ALEX_LATORRE_VOICE_ID
    ELSE IF answers THEN lookup_voice(voices)
    ELSE NoVoice

\* ALEX_LATORRE_VOICE_ID = get_alex_latorre_voice_id() at module level
Startup(answers) ==
    /\ phase = "starting"
    /\ phase' = "serving"
    /\ ALEX_LATORRE_VOICE_ID' = get_alex_latorre_voice_id(answers)
    /\ UNCHANGED <<tokens, users, codes, voices, GOOGLE_API_KEY, now, ticks, nAudio,
                   nClones, req>>

(***************************************************************************)
(* The fields of a request body.  A numeric field is absent, a number (in  *)
(* hundredths), a boolean or a text that is not a number.                  *)
(***************************************************************************)
Absent == [kind |-> "absent", value |-> 0, flag |-> FALSE, text |-> ""]
Number(n) == [kind |-> "number", value |-> n, flag |-> FALSE, text |-> ""]
Boolean(b) == [kind |-> "bool", value |-> 0, flag |-> b, text |-> ""]
Text(t) == [kind |-> "text", value |-> 0, flag |-> FALSE, text |-> t]

\* float(x): the number, 1.0 or 0.0 of a boolean, ValueError of such a text
float(x) ==
    CASE x.kind = "number" -> [ok |-> TRUE, value |-> x.value]
      [] x.kind = "bool"   -> [ok |-> TRUE, value |-> IF x.flag THEN 100 ELSE 0]
      [] OTHER             -> [ok |-> FALSE, value |-> 0]

(***************************************************************************)
(* generate_audio: POST /generate-audio-cloned.  The body of the request   *)
(* is a JSON object ("json"), a JSON value for which `not data` holds      *)
(* ("json_falsy"), another JSON value that is not an object                *)
(* ("json_not_object"), a form with fields ("form") or not JSON and no     *)
(* form field at all ("form_empty").  topic and value are absent, a string *)
(* or, in JSON, a value that is not a string.                              *)
(***************************************************************************)
Missing == [kind |-> "absent", str |-> <<>>]
NotString == [kind |-> "not_string", str |-> <<>>]
Str(text) == [kind |-> "string", str |-> text]

\* float(stability_input), float(similarity_boost_input): the default of
\* the account for an absent field
numeric_setting(x) == x.kind = "absent" \/ float(x).ok

\* not topic_str or not isinstance(topic_str, str) or not topic_str.strip()
blank_field(x) == x.kind # "string" \/ x.str = <<>> \/ strip(x.str) = <<>>

\* the status of the checks of the request before the try block
\* (0: the request passes them)
generate_audio_validation(body, topic, value, stability, similarity_boost) ==
    CASE body = "json_falsy" -> 400
      [] body = "json_not_object" -> 500
      [] body = "form_empty" -> 415
      [] body = "form" /\ (topic.kind = "absent" \/ value.kind = "absent") -> 400
      [] OTHER ->
            IF ~numeric_setting(stability) \/ ~numeric_setting(similarity_boost)
            THEN 400
            ELSE IF blank_field(topic) \/ blank_field(value) THEN 400
            ELSE 0

\* token_required and the validation of the request
BeginGenerateAudioRequest(p, u, body, topic, value, stability, similarity_boost) ==
    /\ nAudio < MaxAudio
    /\ u \in DOMAIN users
    /\ nAudio' = nAudio + 1
    /\ LET r == [Idle EXCEPT !.op = "generate_audio", !.uid = u, !.at = now,
                             !.cur = users[u], !.pre = users,
                             !.in = [topic |-> topic.str, value |-> value.str,
                                     body |-> body, topic_kind |-> topic.kind,
                                     value_kind |-> value.kind,
                                     stability |-> stability,
                                     similarity_boost |-> similarity_boost]]
           loc == [topic |-> strip(topic.str), value |-> strip(value.str),
                   voice |-> NoVoice, count |-> 0, text |-> NoText,
                   flagged |-> FALSE, filter_done |-> FALSE,
                   gen_outcome |-> "none", gen_calls |-> 0,
                   dir_calls |-> 0, tts_calls |-> 0, tts_text |-> NoText,
                   upstream |-> 0, body |-> "none"]
           status == generate_audio_validation(body, topic, value, stability,
                                               similarity_boost)
       IN  IF status # 0
           THEN req' = [req EXCEPT ![p] = [r EXCEPT !.pc = "done",
                                                    !.status = status,
                                                    !.loc = loc]]
           ELSE req' = [req EXCEPT ![p] = [r EXCEPT !.pc = "voice", !.loc = loc]]
    /\ UNCHANGED <<tokens, users, codes, voices, ALEX_LATORRE_VOICE_ID, GOOGLE_API_KEY, phase,
                   now, ticks, nClones>>

\* the request of a client that sends topic and value as JSON strings
BeginGenerateAudio(p, u, topic_str, value_str) ==
    BeginGenerateAudioRequest(p, u, "json", Str(topic_str), Str(value_str),
                              Absent, Absent)

GenerateAudioVoiceSkipsQuota(p, answers) ==
    /\ req[p].op = "generate_audio" /\ req[p].pc = "voice"
    /\ LET r == req[p]
           user_clone_id == r.cur.voice_clone_id
           asks == user_clone_id = NoVoice /\ ALEX_LATORRE_VOICE_ID = NoVoice
           voice_id_to_use ==
               IF user_clone_id # NoVoice THEN user_clone_id
               ELSE get_alex_latorre_voice_id(answers)
           loc == [r.loc EXCEPT !.voice = voice_id_to_use,
                                !.dir_calls = IF asks THEN 1 ELSE 0]
       IN  /\ asks \/ answers
           /\ ALEX_LATORRE_VOICE_ID' =
                 IF user_clone_id = NoVoice THEN voice_id_to_use
                 ELSE ALEX_LATORRE_VOICE_ID
           /\ IF voice_id_to_use = NoVoice
              THEN Respond(p, 500, loc)
              ELSE Goto(p, "filter", loc)
    /\ UNCHANGED <<tokens, users, codes, voices, GOOGLE_API_KEY, phase, now, ticks,
                   nAudio, nClones>>

\* voice_id_to_use = user_clone_id if user_clone_id
\*                   else (ALEX_LATORRE_VOICE_ID or get_alex_latorre_voice_id())
GenerateAudioVoice(p, answers) ==
    /\ req[p].op = "generate_audio" /\ req[p].pc = "voice"
    /\ LET r == req[p]
           user_clone_id == r.cur.voice_clone_id
           asks == user_clone_id = NoVoice /\ ALEX_LATORRE_VOICE_ID = NoVoice
           voice_id_to_use ==
               IF user_clone_id # NoVoice THEN user_clone_id
               ELSE get_alex_latorre_voice_id(answers)
           loc == [r.loc EXCEPT !.voice = voice_id_to_use,
                                !.dir_calls = IF asks THEN 1 ELSE 0]
       IN  /\ asks \/ answers
           /\ ALEX_LATORRE_VOICE_ID' =
                 IF user_clone_id = NoVoice THEN voice_id_to_use
                 ELSE ALEX_LATORRE_VOICE_ID
           /\ IF voice_id_to_use = NoVoice
              THEN Respond(p, 500, loc)
              ELSE Goto(p, "quota", loc)
    /\ UNCHANGED <<tokens, users, codes, voices, GOOGLE_API_KEY, phase, now, ticks,
                   nAudio, nClones>>

(***************************************************************************)
(* The same resolution as the steps a worker thread takes, for requests    *)
(* that run at the same time: the read of the cache in generate_audio, the *)
(* test of the cache in get_alex_latorre_voice_id, and the query of the    *)
(* directory with the assignment of the cache.                             *)
(***************************************************************************)
\* user_clone_id if user_clone_id else (ALEX_LATORRE_VOICE_ID or ...)
GenerateAudioVoiceRead(p) ==
    /\ req[p].op = "generate_audio" /\ req[p].pc = "voice"
    /\ LET r == req[p]
           user_clone_id == r.cur.voice_clone_id
       IN  IF user_clone_id # NoVoice
           THEN Goto(p, "quota", [r.loc EXCEPT !.voice = user_clone_id])
           ELSE IF ALEX_LATORRE_VOICE_ID # NoVoice
           THEN Goto(p, "quota", [r.loc EXCEPT !.voice = ALEX_LATORRE_VOICE_ID])
           ELSE Goto(p, "cache", r.loc)
    /\ UNCHANGED <<tokens, users, codes, voices, ALEX_LATORRE_VOICE_ID, GOOGLE_API_KEY,
                   phase, now, ticks, nAudio, nClones>>

\* if ALEX_LATORRE_VOICE_ID: return ALEX_LATORRE_VOICE_ID
VoiceIdCached(p) ==
    /\ req[p].op = "generate_audio" /\ req[p].pc = "cache"
    /\ LET r == req[p]
       IN  IF ALEX_LATORRE_VOICE_ID # NoVoice
           THEN Goto(p, "quota", [r.loc EXCEPT !.voice = ALEX_LATORRE_VOICE_ID])
           ELSE Goto(p, "directory", r.loc)
    /\ UNCHANGED <<tokens, users, codes, voices, ALEX_LATORRE_VOICE_ID, GOOGLE_API_KEY,
                   phase, now, ticks, nAudio, nClones>>

\* requests.get(".../v1/voices"), the four loops, and the assignment of the
\* global when a loop finds a voice
VoiceIdLookup(p, answers) ==
    /\ req[p].op = "generate_audio" /\ req[p].pc = "directory"
    /\ LET r == req[p]
           found == IF answers THEN lookup_voice(voices) ELSE NoVoice
           loc == [r.loc EXCEPT !.voice = found, !.dir_calls = 1]
       IN  /\ ALEX_LATORRE_VOICE_ID' =
                 IF found # NoVoice THEN found ELSE ALEX_LATORRE_VOICE_ID
           /\ IF found = NoVoice
              THEN Respond(p, 500, loc)
              ELSE Goto(p, "quota", loc)
    /\ UNCHANGED <<tokens, users, codes, voices, GOOGLE_API_KEY, phase, now, ticks,
                   nAudio, nClones>>

\* the voice service's directory changes: voices are added to it and removed
\* from it, by this service's clone requests and by the service's other clients
DirectoryChange(vs) ==
    /\ phase = "serving"
    /\ vs # voices
    /\ voices' = vs
    /\ UNCHANGED <<tokens, users, codes, ALEX_LATORRE_VOICE_ID, GOOGLE_API_KEY, phase,
                   now, ticks, nAudio, nClones, req>>

needs_reset_month_only(last_reset, t) ==
    /\ last_reset # NoDate
    /\ month(t) # month(last_reset)

\* if last_reset and (now.month != last_reset.month
\*                     or now.year != last_reset.year)
needs_reset(last_reset, t) ==
    /\ last_reset # NoDate
    /\ (month(t) # month(last_reset) \/ year(t) # year(last_reset))

over_limit_never(count) == FALSE

over_limit_strict(count) ==
    count > MONTHLY_CHAR_LIMIT

\* if current_user_char_count >= MONTHLY_CHAR_LIMIT
over_limit(count) ==
    count >= MONTHLY_CHAR_LIMIT

GenerateAudioQuotaSkipsFilter(p) ==
    /\ req[p].op = "generate_audio" /\ req[p].pc = "quota"
    /\ LET r == req[p]
           last_reset == r.cur.lastCharReset
           reset == needs_reset(last_reset, now)
           current_user_char_count == IF reset THEN 0 ELSE r.cur.charCount
           loc == [r.loc EXCEPT !.count = current_user_char_count]
       IN  /\ users' = IF reset /\ r.uid \in DOMAIN users
                       THEN [users EXCEPT ![r.uid].charCount = 0,
                                          ![r.uid].lastCharReset = now]
                       ELSE users
           /\ IF over_limit(current_user_char_count)
              THEN Respond(p, 429, loc)
              ELSE Goto(p, "text", loc)
    /\ UNCHANGED <<tokens, codes, voices, ALEX_LATORRE_VOICE_ID, GOOGLE_API_KEY, phase,
                   now, ticks, nAudio, nClones>>

\* the monthly reset and the limit check
GenerateAudioQuota(p) ==
    /\ req[p].op = "generate_audio" /\ req[p].pc = "quota"
    /\ LET r == req[p]
           last_reset == r.cur.lastCharReset
           reset == needs_reset(last_reset, now)
           current_user_char_count == IF reset THEN 0 ELSE r.cur.charCount
           loc == [r.loc EXCEPT !.count = current_user_char_count]
       IN  /\ users' = IF reset /\ r.uid \in DOMAIN users
                       THEN [users EXCEPT ![r.uid].charCount = 0,
                                          ![r.uid].lastCharReset = now]
                       ELSE users
           /\ IF over_limit(current_user_char_count)
              THEN Respond(p, 429, loc)
              ELSE Goto(p, "filter", loc)
    /\ UNCHANGED <<tokens, codes, voices, ALEX_LATORRE_VOICE_ID, GOOGLE_API_KEY, phase,
                   now, ticks, nAudio, nClones>>

\* _generate_thought_text: the text for an answer of the generator
\* ("raise": the SDK call raises; "text": the response has .text;
\*  "candidates": it has no .text but a candidate part with text;
\*  "no_text": it has neither)
thought_text(outcome, n, language, topic, value) ==
    CASE outcome = "raise"      -> fallback_message(language, topic, value)
      [] outcome = "text"       -> generated(n)
      [] outcome = "candidates" -> generated(n)
      [] OTHER                  -> generated(0)

GeneratorAnswers ==
    {<<"raise", 0>>, <<"no_text", 0>>}
        \cup {<<o, n>> : o \in {"text", "candidates"}, n \in GenLens}

\* if _is_likely_inappropriate(topic) or _is_likely_inappropriate(value)
GenerateAudioFilter(p) ==
    /\ req[p].op = "generate_audio" /\ req[p].pc = "filter"
    /\ LET r == req[p]
           flagged == \/ _is_likely_inappropriate(r.loc.topic)
                      \/ _is_likely_inappropriate(r.loc.value)
       IN  Goto(p, "text", [r.loc EXCEPT !.flagged = flagged, !.filter_done = TRUE])
    /\ UNCHANGED <<tokens, users, codes, voices, ALEX_LATORRE_VOICE_ID, GOOGLE_API_KEY,
                   phase, now, ticks, nAudio, nClones>>

\* generated_text: the fallback for flagged input, or _generate_thought_text
GenerateAudioText(p, answer) ==
    /\ req[p].op = "generate_audio" /\ req[p].pc = "text"
    /\ LET r == req[p]
           user_language == r.cur.language
           calls == ~r.loc.flagged /\ GOOGLE_API_KEY
           generated_text ==
               IF r.loc.flagged THEN inappropriate_fallback_text(user_language)
               ELSE IF ~GOOGLE_API_KEY
                    THEN fallback_message(user_language, r.loc.topic, r.loc.value)
               ELSE thought_text(answer[1], answer[2], user_language,
                                 r.loc.topic, r.loc.value)
       IN  /\ calls \/ answer = <<"raise", 0>>
           /\ Goto(p, "charge",
                   [r.loc EXCEPT !.text = generated_text,
                                 !.gen_outcome = IF calls THEN answer[1] ELSE "none",
                                 !.gen_calls = IF calls THEN r.loc.gen_calls + 1
                                               ELSE r.loc.gen_calls])
    /\ UNCHANGED <<tokens, users, codes, voices, ALEX_LATORRE_VOICE_ID, GOOGLE_API_KEY,
                   phase, now, ticks, nAudio, nClones>>

generated_char_count_whole(generated_text) ==
    generated_text.len

\* generated_char_count = (len(generated_text))//2
generated_char_count(generated_text) ==
    generated_text.len \div 2

GenerateAudioChargeAll(p) ==
    /\ req[p].op = "generate_audio" /\ req[p].pc = "charge"
    /\ LET r == req[p]
           new_total_count == r.loc.count + generated_char_count(r.loc.text)
       IN  /\ users' = [u \in DOMAIN users |->
                           [users[u] EXCEPT !.charCount = new_total_count]]
           /\ Goto(p, "tts", r.loc)
    /\ UNCHANGED <<tokens, codes, voices, ALEX_LATORRE_VOICE_ID, GOOGLE_API_KEY, phase,
                   now, ticks, nAudio, nClones>>

\* new_total_count and the update of charCount
GenerateAudioCharge(p) ==
    /\ req[p].op = "generate_audio" /\ req[p].pc = "charge"
    /\ LET r == req[p]
           new_total_count == r.loc.count + generated_char_count(r.loc.text)
       IN  /\ users' = IF r.uid \in DOMAIN users
                       THEN [users EXCEPT ![r.uid].charCount = new_total_count]
                       ELSE users
           /\ Goto(p, "tts", r.loc)
    /\ UNCHANGED <<tokens, codes, voices, ALEX_LATORRE_VOICE_ID, GOOGLE_API_KEY, phase,
                   now, ticks, nAudio, nClones>>

tts_response_status_always_500(outcome) ==
    IF outcome = "ok" THEN 200 ELSE 500

\* the status of the response for an answer of the synthesizer: 200 with the
\* audio, tts_resp.status_code for an error status, 500 for an exception
tts_response_status(outcome) ==
    CASE outcome = "ok" -> 200
      [] outcome = "http_error" -> TtsErrorStatus
      [] OTHER -> 500

GenerateAudioTtsRetries(p, outcome) ==
    /\ req[p].op = "generate_audio" /\ req[p].pc = "tts"
    /\ LET r == req[p]
           loc == [r.loc EXCEPT !.tts_calls = r.loc.tts_calls + 1,
                                !.tts_text = r.loc.text,
                                !.upstream = CASE outcome = "ok" -> 200
                                               [] outcome = "http_error" -> TtsErrorStatus
                                               [] OTHER -> 0,
                                !.body = CASE outcome = "ok" -> "audio"
                                           [] outcome = "http_error" -> "upstream_body"
                                           [] OTHER -> "exception_message"]
       IN  IF outcome # "ok" /\ r.loc.tts_calls = 0
           THEN Goto(p, "tts", loc)
           ELSE Respond(p, tts_response_status(outcome), loc)
    /\ UNCHANGED <<tokens, users, codes, voices, ALEX_LATORRE_VOICE_ID, GOOGLE_API_KEY,
                   phase, now, ticks, nAudio, nClones>>

\* the synthesis call and the response
GenerateAudioTts(p, outcome) ==
    /\ req[p].op = "generate_audio" /\ req[p].pc = "tts"
    /\ LET r == req[p]
           loc == [r.loc EXCEPT !.tts_calls = r.loc.tts_calls + 1,
                                !.tts_text = r.loc.text,
                                !.upstream = CASE outcome = "ok" -> 200
                                               [] outcome = "http_error" -> TtsErrorStatus
                                               [] OTHER -> 0,
                                !.body = CASE outcome = "ok" -> "audio"
                                           [] outcome = "http_error" -> "upstream_body"
                                           [] OTHER -> "exception_message"]
       IN  Respond(p, tts_response_status(outcome), loc)
    /\ UNCHANGED <<tokens, users, codes, voices, ALEX_LATORRE_VOICE_ID, GOOGLE_API_KEY,
                   phase, now, ticks, nAudio, nClones>>

(***************************************************************************)
(* The variant of the service in src/prebaalex/main.py: its                *)
(* generate_audio has no quota and no charge, and its                      *)
(* _generate_thought_text follows an SDK call that gave no text by a call  *)
(* of the generator's REST endpoint.                                       *)
(***************************************************************************)
PrebaalexFallbackBaseLen == 92

\* the fixed phrase with value and topic, in Spanish
prebaalex_fallback_message(topic, value) ==
    [kind |-> "thought_fallback", spanish |-> TRUE,
     len |-> PrebaalexFallbackBaseLen + Len(value) + Len(topic)]

SdkAnswers == {"import_error", "raise", "text", "candidates", "no_text"}
RestAnswers == {"text", "no_candidates", "raise"}

\* whether the SDK attempt ends _generate_thought_text with a text
sdk_returns(sdk) == sdk \in {"text", "candidates"}

\* token_required and the validation of the request
PrebaalexBeginGenerateAudio(p, u, topic_str, value_str) ==
    /\ nAudio < MaxAudio
    /\ u \in DOMAIN users
    /\ nAudio' = nAudio + 1
    /\ LET r == [Idle EXCEPT !.op = "prebaalex_generate_audio", !.uid = u,
                             !.at = now, !.cur = users[u], !.pre = users,
                             !.in = [topic |-> topic_str, value |-> value_str]]
           loc == [topic |-> strip(topic_str), value |-> strip(value_str),
                   voice |-> NoVoice, text |-> NoText, flagged |-> FALSE,
                   gen_outcome |-> "none", gen_calls |-> 0, sdk_calls |-> 0,
                   rest_calls |-> 0, dir_calls |-> 0, tts_calls |-> 0,
                   tts_text |-> NoText]
       IN  IF strip(topic_str) = <<>> \/ strip(value_str) = <<>>
           THEN req' = [req EXCEPT ![p] = [r EXCEPT !.pc = "done", !.status = 400,
                                                    !.loc = loc]]
           ELSE req' = [req EXCEPT ![p] = [r EXCEPT !.pc = "voice", !.loc = loc]]
    /\ UNCHANGED <<tokens, users, codes, voices, ALEX_LATORRE_VOICE_ID, GOOGLE_API_KEY,
                   phase, now, ticks, nClones>>

\* voice_id_to_use = user_clone_id, else
\*                   ALEX_LATORRE_VOICE_ID or get_alex_latorre_voice_id()
PrebaalexVoice(p, answers) ==
    /\ req[p].op = "prebaalex_generate_audio" /\ req[p].pc = "voice"
    /\ LET r == req[p]
           user_clone_id == r.cur.voice_clone_id
           asks == user_clone_id = NoVoice /\ ALEX_LATORRE_VOICE_ID = NoVoice
           voice_id_to_use ==
               IF user_clone_id # NoVoice THEN user_clone_id
               ELSE get_alex_latorre_voice_id(answers)
           loc == [r.loc EXCEPT !.voice = voice_id_to_use,
                                !.dir_calls = IF asks THEN 1 ELSE 0]
       IN  /\ asks \/ answers
           /\ ALEX_LATORRE_VOICE_ID' =
                 IF user_clone_id = NoVoice THEN voice_id_to_use
                 ELSE ALEX_LATORRE_VOICE_ID
           /\ IF voice_id_to_use = NoVoice
              THEN Respond(p, 500, loc)
              ELSE Goto(p, "text", loc)
    /\ UNCHANGED <<tokens, users, codes, voices, GOOGLE_API_KEY, phase, now, ticks,
                   nAudio, nClones>>

\* the filter, and generated_text: the fixed text for flagged input, or
\* _generate_thought_text: the SDK call, then the REST call when the SDK
\* attempt did not return, then the fixed phrase
PrebaalexText(p, sdk, rest) ==
    /\ req[p].op = "prebaalex_generate_audio" /\ req[p].pc = "text"
    /\ LET r == req[p]
           flagged == \/ _is_likely_inappropriate(r.loc.topic)
                      \/ _is_likely_inappropriate(r.loc.value)
           tries == ~flagged /\ GOOGLE_API_KEY
           sdk_calls == IF tries /\ sdk # "import_error" THEN 1 ELSE 0
           rest_calls == IF tries /\ ~sdk_returns(sdk) THEN 1 ELSE 0
           generated_text ==
               IF flagged THEN inappropriate_fallback_text("english")
               ELSE IF ~GOOGLE_API_KEY
                    THEN prebaalex_fallback_message(r.loc.topic, r.loc.value)
               ELSE IF sdk_returns(sdk) THEN generated(7)
               ELSE IF rest = "text" THEN generated(7)
               ELSE prebaalex_fallback_message(r.loc.topic, r.loc.value)
       IN  /\ tries \/ sdk = "raise"
           /\ rest_calls = 1 \/ rest = "raise"
           /\ Goto(p, "tts",
                   [r.loc EXCEPT !.flagged = flagged, !.text = generated_text,
                                 !.gen_outcome = IF tries THEN sdk ELSE "none",
                                 !.sdk_calls = r.loc.sdk_calls + sdk_calls,
                                 !.rest_calls = r.loc.rest_calls + rest_calls,
                                 !.gen_calls = r.loc.gen_calls + sdk_calls
                                                  + rest_calls])
    /\ UNCHANGED <<tokens, users, codes, voices, ALEX_LATORRE_VOICE_ID, GOOGLE_API_KEY,
                   phase, now, ticks, nAudio, nClones>>

\* the synthesis call and the response
PrebaalexTts(p, outcome) ==
    /\ req[p].op = "prebaalex_generate_audio" /\ req[p].pc = "tts"
    /\ LET r == req[p]
           loc == [r.loc EXCEPT !.tts_calls = r.loc.tts_calls + 1,
                                !.tts_text = r.loc.text]
       IN  Respond(p, tts_response_status(outcome), loc)
    /\ UNCHANGED <<tokens, users, codes, voices, ALEX_LATORRE_VOICE_ID, GOOGLE_API_KEY,
                   phase, now, ticks, nAudio, nClones>>

(***************************************************************************)
(* register: POST /register.                                               *)
(***************************************************************************)
\* validate_email: one "@" with text on both sides
is_valid_email(email) ==
    \E i \in 2..(Len(email) - 1) :
        /\ email[i] = "@"
        /\ \A j \in 1..Len(email) : email[j] = "@" => j = i

\* the _id insert_one gives a new document: the first one not in use
UidOrder == <<"u1", "u2", "u3">>
first_free_uid(collection) ==
    UidOrder[CHOOSE i \in 1..Len(UidOrder) :
                /\ UidOrder[i] \notin DOMAIN collection
                /\ \A j \in 1..(i - 1) : UidOrder[j] \in DOMAIN collection]

BeginRegister(p, username, email, password, activation_code_str) ==
    /\ LET r == [Idle EXCEPT !.op = "register", !.pre = users, !.at = now,
                             !.pre_codes = codes,
                             !.in = [username |-> username, email |-> email,
                                     password |-> password,
                                     activation_code |-> activation_code_str]]
           loc == [inserted_id |-> NoUid]
       IN  IF username = <<>> \/ email = <<>> \/ password = ""
              \/ activation_code_str = ""
           THEN req' = [req EXCEPT ![p] = [r EXCEPT !.pc = "done", !.status = 400,
                                                    !.loc = loc]]
           ELSE IF ~is_valid_email(email)
           THEN req' = [req EXCEPT ![p] = [r EXCEPT !.pc = "done", !.status = 400,
                                                    !.loc = loc]]
           ELSE req' = [req EXCEPT ![p] = [r EXCEPT !.pc = "find_code", !.loc = loc]]
    /\ UNCHANGED <<tokens, users, codes, voices, ALEX_LATORRE_VOICE_ID, GOOGLE_API_KEY, phase,
                   now, ticks, nAudio, nClones>>

\* activation_codes_collection.find_one({"code": ...}) and the two tests on it
RegisterFindCode(p) ==
    /\ req[p].op = "register" /\ req[p].pc = "find_code"
    /\ LET r == req[p]
           code == r.in.activation_code
       IN  IF code \notin DOMAIN codes THEN Respond(p, 400, r.loc)
           ELSE IF codes[code].used THEN Respond(p, 400, r.loc)
           ELSE Goto(p, "find_username", r.loc)
    /\ UNCHANGED <<tokens, users, codes, voices, ALEX_LATORRE_VOICE_ID, GOOGLE_API_KEY, phase,
                   now, ticks, nAudio, nClones>>

\* users_collection.find_one({"username": username})
RegisterFindUsername(p) ==
    /\ req[p].op = "register" /\ req[p].pc = "find_username"
    /\ LET r == req[p]
       IN  IF \E u \in DOMAIN users : users[u].username = r.in.username
           THEN Respond(p, 409, r.loc)
           ELSE Goto(p, "find_email", r.loc)
    /\ UNCHANGED <<tokens, users, codes, voices, ALEX_LATORRE_VOICE_ID, GOOGLE_API_KEY, phase,
                   now, ticks, nAudio, nClones>>

\* users_collection.find_one({"email": email})
RegisterFindEmail(p) ==
    /\ req[p].op = "register" /\ req[p].pc = "find_email"
    /\ LET r == req[p]
       IN  IF \E u \in DOMAIN users : users[u].email = r.in.email
           THEN Respond(p, 409, r.loc)
           ELSE Goto(p, "insert", r.loc)
    /\ UNCHANGED <<tokens, users, codes, voices, ALEX_LATORRE_VOICE_ID, GOOGLE_API_KEY, phase,
                   now, ticks, nAudio, nClones>>

bcrypt_hashpw(password) == <<"bcrypt", password>>
bcrypt_checkpw(password, hashed) == hashed = <<"bcrypt", password>>

duplicate_key_unchecked(collection, username, email) == FALSE

\* the unique indexes on username and email
duplicate_key(collection, username, email) ==
    \E u \in DOMAIN collection :
        \/ collection[u].username = username
        \/ collection[u].email = email

\* users_collection.insert_one(user_data); it raises on a duplicate key and
\* when the store fails (~ok), which the handler answers with 500
RegisterInsert(p, ok) ==
    /\ req[p].op = "register" /\ req[p].pc = "insert"
    /\ LET r == req[p]
           duplicate == ~ok \/ duplicate_key(users, r.in.username, r.in.email)
           id == first_free_uid(users)
           user_data == [username |-> r.in.username, email |-> r.in.email,
                         password |-> bcrypt_hashpw(r.in.password),
                         loggedIn |-> FALSE, charCount |-> 0,
                         lastCharReset |-> now, voice_clone_id |-> NoVoice,
                         language |-> "english", voice_similarity |-> 85,
                         stability |-> 70, add_background_sound |-> TRUE,
                         background_volume |-> 50]
       IN  IF duplicate
           THEN /\ Respond(p, 500, r.loc)
                /\ users' = users
           ELSE /\ users' = [u \in DOMAIN users \cup {id} |->
                               IF u = id THEN user_data ELSE users[u]]
                /\ Goto(p, "mark_code", [r.loc EXCEPT !.inserted_id = id])
    /\ UNCHANGED <<tokens, codes, voices, ALEX_LATORRE_VOICE_ID, GOOGLE_API_KEY, phase,
                   now, ticks, nAudio, nClones>>

\* activation_codes_collection.update_one(... {"used": True, "used_by": ...});
\* when it raises (~ok) the handler answers with 500
RegisterMarkCode(p, ok) ==
    /\ req[p].op = "register" /\ req[p].pc = "mark_code"
    /\ LET r == req[p]
       IN  IF ok
           THEN /\ codes' = [codes EXCEPT ![r.in.activation_code].used = TRUE,
                                          ![r.in.activation_code].used_by =
                                              r.loc.inserted_id]
                /\ Respond(p, 201, r.loc)
           ELSE /\ codes' = codes
                /\ Respond(p, 500, r.loc)
    /\ UNCHANGED <<tokens, users, voices, ALEX_LATORRE_VOICE_ID, GOOGLE_API_KEY, phase,
                   now, ticks, nAudio, nClones>>

(***************************************************************************)
(* login: POST /login.                                                     *)
(***************************************************************************)
NoToken == [user_id |-> NoUid, username |-> <<>>, exp |-> 0, signed |-> FALSE]

already_logged_in_never(user) == FALSE

\* if user.get('loggedIn', False)
already_logged_in(user) == user.loggedIn

\* users_collection.find_one({"$or": [{"email": x}, {"username": x}]}),
\* bcrypt.checkpw and the loggedIn test
BeginLogin(p, email_or_username, password) ==
    /\ LET r == [Idle EXCEPT !.op = "login", !.pre = users, !.at = now,
                             !.in = [email |-> email_or_username,
                                     password |-> password]]
           found == {u \in DOMAIN users :
                        \/ users[u].email = email_or_username
                        \/ users[u].username = email_or_username}
           done(status) == req' = [req EXCEPT ![p] =
                              [r EXCEPT !.pc = "done", !.status = status,
                                        !.loc = [token |-> NoToken]]]
       IN  IF email_or_username = <<>> \/ password = "" THEN done(400)
           ELSE IF found = {} THEN done(401)
           ELSE \E u \in found :
                   IF bcrypt_checkpw(password, users[u].password)
                   THEN IF already_logged_in(users[u])
                        THEN done(409)
                        ELSE req' = [req EXCEPT ![p] =
                                [r EXCEPT !.pc = "set_logged_in", !.uid = u,
                                          !.cur = users[u],
                                          !.loc = [token |->
                                             [user_id |-> u,
                                              username |-> users[u].username,
                                              exp |-> now + TokenLifetimeHours,
                                              signed |-> TRUE]]]]
                   ELSE done(401)
    /\ UNCHANGED <<tokens, users, codes, voices, ALEX_LATORRE_VOICE_ID, GOOGLE_API_KEY, phase,
                   now, ticks, nAudio, nClones>>

\* users_collection.update_one(... {"$set": {"loggedIn": True}}) and the 200
LoginSetLoggedIn(p) ==
    /\ req[p].op = "login" /\ req[p].pc = "set_logged_in"
    /\ users' = [users EXCEPT ![req[p].uid].loggedIn = TRUE]
    /\ tokens' = tokens \cup {req[p].loc.token}
    /\ Respond(p, 200, req[p].loc)
    /\ UNCHANGED <<codes, voices, ALEX_LATORRE_VOICE_ID, GOOGLE_API_KEY, phase,
                   now, ticks, nAudio, nClones>>

(***************************************************************************)
(* token_required: the decorator of the protected handlers.  A header is   *)
(* the number of words of the Authorization header (0: no header), its     *)
(* first word and the token that is its second word; NoToken as second     *)
(* word is the empty string.  The first word is never looked at.           *)
(***************************************************************************)
NoHeader == [words |-> 0, scheme |-> "", token |-> NoToken]

\* a token that was not signed with JWT_SECRET_KEY
ForgedToken ==
    [user_id |-> "u1", username |-> Carol, exp |-> 100 * HoursPerMonth,
     signed |-> FALSE]

\* the headers a client can send that holds the given tokens
Headers(held) ==
    {NoHeader, [words |-> 1, scheme |-> "Bearer", token |-> NoToken]}
        \cup {[words |-> 1, scheme |-> "", token |-> t] : t \in held}
        \cup {[words |-> 2, scheme |-> s, token |-> t] :
                 s \in {"Bearer", "Basic"}, t \in held \cup {NoToken, ForgedToken}}

\* the headers of the clients that send "Bearer <token>" with a token of theirs
BearerHeaders(held) ==
    {[words |-> 2, scheme |-> "Bearer", token |-> t] : t \in held}

jwt_expired_never(exp, t, at_exp) == FALSE

\* jwt.decode raises ExpiredSignatureError: after exp, and at exp itself
\* depending on the version of the library (at_exp)
jwt_expired(exp, t, at_exp) ==
    t > exp \/ (t = exp /\ at_exp)

token_required_logged_in(header, accounts, t, at_exp) ==
    LET token == header.token
        refuse == [status |-> 401, uid |-> NoUid]
    IN  IF header.words = 0 THEN refuse
        ELSE IF header.words = 1 THEN refuse
        ELSE IF token = NoToken THEN refuse
        ELSE IF ~token.signed THEN refuse
        ELSE IF jwt_expired(token.exp, t, at_exp) THEN refuse
        ELSE IF token.user_id \notin DOMAIN accounts THEN refuse
        ELSE IF ~accounts[token.user_id].loggedIn THEN refuse
        ELSE [status |-> 0, uid |-> token.user_id]

\* the status token_required answers with (0: the handler is run) and the
\* account it puts in g.current_user; the token is auth_header.split(" ")[1],
\* the second word whatever the first one is
token_required(header, accounts, t, at_exp) ==
    LET token == header.token
        refuse == [status |-> 401, uid |-> NoUid]
    IN  IF header.words = 0 THEN refuse
        ELSE IF header.words = 1 THEN refuse
        ELSE IF token = NoToken THEN refuse
        ELSE IF ~token.signed THEN refuse
        ELSE IF jwt_expired(token.exp, t, at_exp) THEN refuse
        ELSE IF token.user_id \notin DOMAIN accounts THEN refuse
        ELSE [status |-> 0, uid |-> token.user_id]

\* the start of a protected request: refused with 401, or at the handler
Protected(p, op, header, at_exp, in, pc, loc) ==
    LET auth == token_required(header, users, now, at_exp)
        r == [Idle EXCEPT !.op = op, !.at = now, !.pre = users,
                          !.pre_codes = codes,
                          !.in = [header |-> header, data |-> in],
                          !.loc = loc]
    IN  IF auth.status # 0
        THEN req' = [req EXCEPT ![p] = [r EXCEPT !.pc = "done",
                                                 !.status = auth.status]]
        ELSE req' = [req EXCEPT ![p] = [r EXCEPT !.pc = pc, !.uid = auth.uid,
                                                 !.cur = users[auth.uid]]]

(***************************************************************************)
(* logout and force_logout: POST /logout, POST /force-logout.              *)
(***************************************************************************)
BeginLogout(p, header, at_exp) ==
    /\ Protected(p, "logout", header, at_exp, <<>>, "write", [writes |-> 0])
    /\ UNCHANGED <<tokens, users, codes, voices, ALEX_LATORRE_VOICE_ID,
                   GOOGLE_API_KEY, phase, now, ticks, nAudio, nClones>>

BeginForceLogout(p, header, at_exp) ==
    /\ Protected(p, "force_logout", header, at_exp, <<>>, "write", [writes |-> 0])
    /\ UNCHANGED <<tokens, users, codes, voices, ALEX_LATORRE_VOICE_ID,
                   GOOGLE_API_KEY, phase, now, ticks, nAudio, nClones>>

\* users_collection.update_one(... {"$set": {"loggedIn": False}}) and the 200
LogoutWrite(p) ==
    /\ req[p].op \in {"logout", "force_logout"} /\ req[p].pc = "write"
    /\ users' = [users EXCEPT ![req[p].uid].loggedIn = FALSE]
    /\ Respond(p, 200, [req[p].loc EXCEPT !.writes = 1])
    /\ UNCHANGED <<tokens, codes, voices, ALEX_LATORRE_VOICE_ID, GOOGLE_API_KEY,
                   phase, now, ticks, nAudio, nClones>>

(***************************************************************************)
(* get_character_usage: GET /character-usage.                              *)
(***************************************************************************)
BeginCharacterUsage(p, header, at_exp) ==
    /\ Protected(p, "character_usage", header, at_exp, <<>>, "usage",
                 [writes |-> 0, used_characters |-> 0,
                  remaining_characters |-> 0])
    /\ UNCHANGED <<tokens, users, codes, voices, ALEX_LATORRE_VOICE_ID,
                   GOOGLE_API_KEY, phase, now, ticks, nAudio, nClones>>

usage_resets_never(last_reset, t) == FALSE

usage_resets_month_only(last_reset, t) ==
    /\ last_reset # NoDate
    /\ month(t) # month(last_reset)

\* the new month test of get_character_usage
usage_resets(last_reset, t) ==
    /\ last_reset # NoDate
    /\ (month(t) # month(last_reset) \/ year(t) # year(last_reset))

\* the monthly reset, written to the store, and the 200 with the figures
CharacterUsage(p) ==
    /\ req[p].op = "character_usage" /\ req[p].pc = "usage"
    /\ LET r == req[p]
           reset == usage_resets(r.cur.lastCharReset, now)
           current_char_count == IF reset THEN 0 ELSE r.cur.charCount
           remaining == IF MONTHLY_CHAR_LIMIT - current_char_count > 0
                        THEN MONTHLY_CHAR_LIMIT - current_char_count ELSE 0
       IN  /\ users' = IF reset
                       THEN [users EXCEPT ![r.uid].charCount = 0,
                                          ![r.uid].lastCharReset = now]
                       ELSE users
           /\ Respond(p, 200, [writes |-> IF reset THEN 1 ELSE 0,
                               used_characters |-> current_char_count,
                               remaining_characters |-> remaining])
    /\ UNCHANGED <<tokens, codes, voices, ALEX_LATORRE_VOICE_ID, GOOGLE_API_KEY,
                   phase, now, ticks, nAudio, nClones>>

(***************************************************************************)
(* reset_password: POST /reset-password.  No token is asked for.           *)
(***************************************************************************)
\* the checks of the payload and activation_codes_collection.find_one
BeginResetPasswordUnusedOnly(p, email, activation_code_str, new_password) ==
    /\ LET r == [Idle EXCEPT !.op = "reset_password", !.pre = users, !.at = now,
                             !.pre_codes = codes,
                             !.in = [email |-> email,
                                     activation_code |-> activation_code_str,
                                     new_password |-> new_password]]
           loc == [writes |-> 0]
           done(status) == req' = [req EXCEPT ![p] =
                              [r EXCEPT !.pc = "done", !.status = status,
                                        !.loc = loc]]
       IN  IF email = <<>> \/ activation_code_str = "" \/ new_password = ""
           THEN done(400)
           ELSE IF ~is_valid_email(email) THEN done(400)
           ELSE IF activation_code_str \notin DOMAIN codes THEN done(400)
           ELSE IF codes[activation_code_str].used_for_password_reset
           THEN done(400)
           ELSE IF codes[activation_code_str].used THEN done(400)
           ELSE req' = [req EXCEPT ![p] = [r EXCEPT !.pc = "find_user",
                                                    !.loc = loc]]
    /\ UNCHANGED <<tokens, users, codes, voices, ALEX_LATORRE_VOICE_ID,
                   GOOGLE_API_KEY, phase, now, ticks, nAudio, nClones>>

BeginResetPassword(p, email, activation_code_str, new_password) ==
    /\ LET r == [Idle EXCEPT !.op = "reset_password", !.pre = users, !.at = now,
                             !.pre_codes = codes,
                             !.in = [email |-> email,
                                     activation_code |-> activation_code_str,
                                     new_password |-> new_password]]
           loc == [writes |-> 0]
           done(status) == req' = [req EXCEPT ![p] =
                              [r EXCEPT !.pc = "done", !.status = status,
                                        !.loc = loc]]
       IN  IF email = <<>> \/ activation_code_str = "" \/ new_password = ""
           THEN done(400)
           ELSE IF ~is_valid_email(email) THEN done(400)
           ELSE IF activation_code_str \notin DOMAIN codes THEN done(400)
           ELSE IF codes[activation_code_str].used_for_password_reset
           THEN done(400)
           ELSE req' = [req EXCEPT ![p] = [r EXCEPT !.pc = "find_user",
                                                    !.loc = loc]]
    /\ UNCHANGED <<tokens, users, codes, voices, ALEX_LATORRE_VOICE_ID,
                   GOOGLE_API_KEY, phase, now, ticks, nAudio, nClones>>

\* users_collection.find_one({"email": email})
ResetPasswordFindUser(p) ==
    /\ req[p].op = "reset_password" /\ req[p].pc = "find_user"
    /\ LET found == {u \in DOMAIN users : users[u].email = req[p].in.email}
       IN  IF found = {}
           THEN Respond(p, 404, req[p].loc)
           ELSE \E u \in found :
                   req' = [req EXCEPT ![p].pc = "update", ![p].uid = u,
                                      ![p].cur = users[u]]
    /\ UNCHANGED <<tokens, users, codes, voices, ALEX_LATORRE_VOICE_ID,
                   GOOGLE_API_KEY, phase, now, ticks, nAudio, nClones>>

reset_password_logged_in_toggled(loggedIn) == ~loggedIn

\* "loggedIn": False, force logout from all devices
reset_password_logged_in(loggedIn) == FALSE

\* users_collection.update_one(... {"$set": {"password": ..., "loggedIn": False}})
ResetPasswordUpdate(p) ==
    /\ req[p].op = "reset_password" /\ req[p].pc = "update"
    /\ LET u == req[p].uid
       IN  users' = [users EXCEPT
                       ![u].password = bcrypt_hashpw(req[p].in.new_password),
                       ![u].loggedIn = reset_password_logged_in(users[u].loggedIn)]
    /\ Goto(p, "mark_code", [req[p].loc EXCEPT !.writes = 1])
    /\ UNCHANGED <<tokens, codes, voices, ALEX_LATORRE_VOICE_ID, GOOGLE_API_KEY,
                   phase, now, ticks, nAudio, nClones>>

\* activation_codes_collection.update_one(... "used_for_password_reset": True)
ResetPasswordMarkCode(p) ==
    /\ req[p].op = "reset_password" /\ req[p].pc = "mark_code"
    /\ codes' = [codes EXCEPT
                   ![req[p].in.activation_code].used_for_password_reset = TRUE]
    /\ Respond(p, 200, [req[p].loc EXCEPT !.writes = 2])
    /\ UNCHANGED <<tokens, users, voices, ALEX_LATORRE_VOICE_ID, GOOGLE_API_KEY,
                   phase, now, ticks, nAudio, nClones>>

ResetPasswordStep(p) ==
    \/ ResetPasswordFindUser(p)
    \/ ResetPasswordUpdate(p)
    \/ ResetPasswordMarkCode(p)

(***************************************************************************)
(* update_settings: POST /update-settings.  other_keys tells whether the   *)
(* payload has keys the handler does not know.                             *)
(***************************************************************************)
in_unit_range_no_upper(x) == 0 <= x

\* 0.0 <= x <= 1.0, in hundredths
in_unit_range(x) == 0 <= x /\ x <= 100

\* a coefficient of the payload is refused
bad_coefficient(x) ==
    x.kind # "absent" /\ (~float(x).ok \/ ~in_unit_range(float(x).value))

set_coefficient_or_default(old, x) ==
    IF x.kind = "absent" THEN 50 ELSE float(x).value

\* the value the coefficient has after the $set
set_coefficient(old, x) == IF x.kind = "absent" THEN old ELSE float(x).value

BeginUpdateSettings(p, header, at_exp, data) ==
    /\ Protected(p, "update_settings", header, at_exp, data, "validate",
                 [writes |-> 0])
    /\ UNCHANGED <<tokens, users, codes, voices, ALEX_LATORRE_VOICE_ID,
                   GOOGLE_API_KEY, phase, now, ticks, nAudio, nClones>>

\* the checks of the fields, in the order of the code, and the one $set
UpdateSettings(p) ==
    /\ req[p].op = "update_settings" /\ req[p].pc = "validate"
    /\ LET r == req[p]
           data == r.in.data
           u == r.uid
           updated_fields ==
               {f \in {"language", "voice_similarity", "stability",
                       "add_background_sound", "background_volume"} :
                   data[f].kind # "absent"}
       IN  IF updated_fields = {} /\ ~data.other_keys
           THEN Respond(p, 400, r.loc) /\ users' = users
           ELSE IF data.language.kind # "absent"
                   /\ ~(data.language.kind = "text"
                        /\ data.language.text \in {"english", "spanish"})
           THEN Respond(p, 400, r.loc) /\ users' = users
           ELSE IF bad_coefficient(data.voice_similarity)
           THEN Respond(p, 400, r.loc) /\ users' = users
           ELSE IF bad_coefficient(data.stability)
           THEN Respond(p, 400, r.loc) /\ users' = users
           ELSE IF data.add_background_sound.kind \notin {"absent", "bool"}
           THEN Respond(p, 400, r.loc) /\ users' = users
           ELSE IF bad_coefficient(data.background_volume)
           THEN Respond(p, 400, r.loc) /\ users' = users
           ELSE IF updated_fields = {}
           THEN Respond(p, 200, r.loc) /\ users' = users
           ELSE /\ users' = [users EXCEPT
                    ![u].language =
                        IF data.language.kind = "absent" THEN @
                        ELSE data.language.text,
                    ![u].voice_similarity =
                        set_coefficient(@, data.voice_similarity),
                    ![u].stability = set_coefficient(@, data.stability),
                    ![u].add_background_sound =
                        IF data.add_background_sound.kind = "absent" THEN @
                        ELSE data.add_background_sound.flag,
                    ![u].background_volume =
                        set_coefficient(@, data.background_volume)]
                /\ Respond(p, 200, [r.loc EXCEPT !.writes = 1])
    /\ UNCHANGED <<tokens, codes, voices, ALEX_LATORRE_VOICE_ID, GOOGLE_API_KEY,
                   phase, now, ticks, nAudio, nClones>>

(***************************************************************************)
(* The external voice service: DELETE /v1/voices/{id} and POST             *)
(* /v1/voices/add.                                                         *)
(***************************************************************************)
voice_exists(id) == \E i \in 1..Len(voices) : voices[i].voice_id = id

without_voice(vs, id) == SelectSeq(vs, LAMBDA v : v.voice_id # id)

lang_code_map(language) ==
    CASE language = "english" -> <<"e","n">>
      [] language = "spanish" -> <<"e","s">>
      [] OTHER -> <<"e","n">>

(***************************************************************************)
(* generate_voice_clone: POST /generate-voice-clone.                       *)
(***************************************************************************)
\* the tests on request.files['audio']
check_audio_file(audio) ==
    CASE audio = "missing" -> 400
      [] audio = "no_filename" -> 400
      [] OTHER -> 0

returns_existing_never(existing_id, overwrite) == FALSE

\* if existing_id and not overwrite
returns_existing(existing_id, overwrite) ==
    existing_id # NoVoice /\ ~overwrite

BeginGenerateVoiceClone(p, u, overwrite, audio) ==
    /\ nClones < MaxClones
    /\ u \in DOMAIN users
    /\ nClones' = nClones + 1
    /\ LET existing_id == users[u].voice_clone_id
           r == [Idle EXCEPT !.op = "generate_voice_clone", !.uid = u,
                             !.cur = users[u], !.pre = users,
                             !.in = [overwrite |-> overwrite, audio |-> audio]]
           loc == [voice_clone_id |-> NoVoice, delete_calls |-> 0,
                   delete_ok |-> FALSE, add_calls |-> 0,
                   new_id |-> "c" \o ToString(nClones + 1)]
           at(pc, status, l) ==
               req' = [req EXCEPT ![p] = [r EXCEPT !.pc = pc, !.status = status,
                                                   !.loc = l]]
       IN  IF returns_existing(existing_id, overwrite)
           THEN at("done", 200, [loc EXCEPT !.voice_clone_id = existing_id])
           ELSE IF existing_id # NoVoice /\ overwrite
           THEN at("delete_old", 0, loc)
           ELSE IF check_audio_file(audio) # 0
           THEN at("done", check_audio_file(audio), loc)
           ELSE at("add", 0, loc)
    /\ UNCHANGED <<tokens, users, codes, voices, ALEX_LATORRE_VOICE_ID, GOOGLE_API_KEY, phase,
                   now, ticks, nAudio>>

VoiceCloneDeleteOldBlocks(p, ok) ==
    /\ req[p].op = "generate_voice_clone" /\ req[p].pc = "delete_old"
    /\ LET r == req[p]
           existing_id == r.cur.voice_clone_id
           loc == [r.loc EXCEPT !.delete_calls = 1, !.delete_ok = ok]
       IN  /\ ok => voice_exists(existing_id)
           /\ voices' = IF ok THEN without_voice(voices, existing_id) ELSE voices
           /\ IF ok THEN Goto(p, "unset_old", loc) ELSE Respond(p, 500, loc)
    /\ UNCHANGED <<tokens, users, codes, ALEX_LATORRE_VOICE_ID, GOOGLE_API_KEY, phase,
                   now, ticks, nAudio, nClones>>

\* requests.delete of the old clone; a failure is logged and ignored
VoiceCloneDeleteOld(p, ok) ==
    /\ req[p].op = "generate_voice_clone" /\ req[p].pc = "delete_old"
    /\ LET r == req[p]
           existing_id == r.cur.voice_clone_id
           loc == [r.loc EXCEPT !.delete_calls = 1, !.delete_ok = ok]
       IN  /\ ok => voice_exists(existing_id)
           /\ voices' = IF ok THEN without_voice(voices, existing_id) ELSE voices
           /\ IF ok THEN Goto(p, "unset_old", loc)
              ELSE IF check_audio_file(r.in.audio) # 0
              THEN Respond(p, check_audio_file(r.in.audio), loc)
              ELSE Goto(p, "add", loc)
    /\ UNCHANGED <<tokens, users, codes, ALEX_LATORRE_VOICE_ID, GOOGLE_API_KEY, phase,
                   now, ticks, nAudio, nClones>>

VoiceCloneUnsetOldKeeps(p) ==
    /\ req[p].op = "generate_voice_clone" /\ req[p].pc = "unset_old"
    /\ LET r == req[p]
       IN  /\ users' = users
           /\ IF check_audio_file(r.in.audio) # 0
              THEN Respond(p, check_audio_file(r.in.audio), r.loc)
              ELSE Goto(p, "add", r.loc)
    /\ UNCHANGED <<tokens, codes, voices, ALEX_LATORRE_VOICE_ID, GOOGLE_API_KEY, phase,
                   now, ticks, nAudio, nClones>>

\* users_collection.update_one(... {"$unset": {"voice_clone_id": ""}})
VoiceCloneUnsetOld(p) ==
    /\ req[p].op = "generate_voice_clone" /\ req[p].pc = "unset_old"
    /\ LET r == req[p]
       IN  /\ users' = [users EXCEPT ![r.uid].voice_clone_id = NoVoice]
           /\ IF check_audio_file(r.in.audio) # 0
              THEN Respond(p, check_audio_file(r.in.audio), r.loc)
              ELSE Goto(p, "add", r.loc)
    /\ UNCHANGED <<tokens, codes, voices, ALEX_LATORRE_VOICE_ID, GOOGLE_API_KEY, phase,
                   now, ticks, nAudio, nClones>>

\* requests.post(ELEVEN_VOICE_ADD_URL, ...)
VoiceCloneAdd(p, outcome) ==
    /\ req[p].op = "generate_voice_clone" /\ req[p].pc = "add"
    /\ LET r == req[p]
           loc == [r.loc EXCEPT !.add_calls = 1]
           name == r.cur.username \o <<"_">> \o lang_code_map(r.cur.language)
       IN  CASE outcome = "ok" ->
                  /\ voices' = Append(voices, [name |-> name, category |-> "cloned",
                                               voice_id |-> r.loc.new_id])
                  /\ Goto(p, "store", loc)
             [] outcome = "http_error" ->
                  /\ voices' = voices
                  /\ Respond(p, TtsErrorStatus, loc)
             [] OTHER ->
                  /\ voices' = voices
                  /\ Respond(p, 500, loc)
    /\ UNCHANGED <<tokens, users, codes, ALEX_LATORRE_VOICE_ID, GOOGLE_API_KEY, phase,
                   now, ticks, nAudio, nClones>>

\* users_collection.update_one(... {"$set": {"voice_clone_id": voice_id}})
VoiceCloneStore(p) ==
    /\ req[p].op = "generate_voice_clone" /\ req[p].pc = "store"
    /\ LET r == req[p]
       IN  /\ users' = [users EXCEPT ![r.uid].voice_clone_id = r.loc.new_id]
           /\ Respond(p, 200, [r.loc EXCEPT !.voice_clone_id = r.loc.new_id])
    /\ UNCHANGED <<tokens, codes, voices, ALEX_LATORRE_VOICE_ID, GOOGLE_API_KEY, phase,
                   now, ticks, nAudio, nClones>>

(***************************************************************************)
(* delete_voice_clone: DELETE /delete-voice-clone.                         *)
(***************************************************************************)
BeginDeleteVoiceClone(p, u) ==
    /\ u \in DOMAIN users
    /\ LET r == [Idle EXCEPT !.op = "delete_voice_clone", !.uid = u,
                             !.cur = users[u], !.pre = users]
           loc == [delete_calls |-> 0, delete_ok |-> FALSE]
       IN  IF users[u].voice_clone_id = NoVoice
           THEN req' = [req EXCEPT ![p] = [r EXCEPT !.pc = "done", !.status = 404,
                                                    !.loc = loc]]
           ELSE req' = [req EXCEPT ![p] = [r EXCEPT !.pc = "delete", !.loc = loc]]
    /\ UNCHANGED <<tokens, users, codes, voices, ALEX_LATORRE_VOICE_ID, GOOGLE_API_KEY, phase,
                   now, ticks, nAudio, nClones>>

DeleteVoiceCloneExternalAlwaysClears(p, ok) ==
    /\ req[p].op = "delete_voice_clone" /\ req[p].pc = "delete"
    /\ LET r == req[p]
           existing_id == r.cur.voice_clone_id
           loc == [r.loc EXCEPT !.delete_calls = 1, !.delete_ok = ok]
       IN  /\ ok => voice_exists(existing_id)
           /\ voices' = IF ok THEN without_voice(voices, existing_id) ELSE voices
           /\ Goto(p, "unset", loc)
    /\ UNCHANGED <<tokens, users, codes, ALEX_LATORRE_VOICE_ID, GOOGLE_API_KEY, phase,
                   now, ticks, nAudio, nClones>>

\* requests.delete of the clone; a failure ends the request with 500
DeleteVoiceCloneExternal(p, ok) ==
    /\ req[p].op = "delete_voice_clone" /\ req[p].pc = "delete"
    /\ LET r == req[p]
           existing_id == r.cur.voice_clone_id
           loc == [r.loc EXCEPT !.delete_calls = 1, !.delete_ok = ok]
       IN  /\ ok => voice_exists(existing_id)
           /\ voices' = IF ok THEN without_voice(voices, existing_id) ELSE voices
           /\ IF ok THEN Goto(p, "unset", loc) ELSE Respond(p, 500, loc)
    /\ UNCHANGED <<tokens, users, codes, ALEX_LATORRE_VOICE_ID, GOOGLE_API_KEY, phase,
                   now, ticks, nAudio, nClones>>

\* users_collection.update_one(... {"$unset": {"voice_clone_id": ""}})
DeleteVoiceCloneUnset(p) ==
    /\ req[p].op = "delete_voice_clone" /\ req[p].pc = "unset"
    /\ users' = [users EXCEPT ![req[p].uid].voice_clone_id = NoVoice]
    /\ Respond(p, 200, req[p].loc)
    /\ UNCHANGED <<tokens, codes, voices, ALEX_LATORRE_VOICE_ID, GOOGLE_API_KEY, phase,
                   now, ticks, nAudio, nClones>>

(***************************************************************************)
(* The clock: a month passes, or a year.                                   *)
(***************************************************************************)
Tick(months) ==
    /\ ticks < MaxTicks
    /\ ticks' = ticks + 1
    /\ now' = now + months * HoursPerMonth
    /\ UNCHANGED <<tokens, users, codes, voices, ALEX_LATORRE_VOICE_ID, GOOGLE_API_KEY, phase,
                   nAudio, nClones, req>>

\* the clock advances by some hours
Pass(hours) ==
    /\ ticks < MaxTicks
    /\ ticks' = ticks + 1
    /\ now' = now + hours
    /\ UNCHANGED <<tokens, users, codes, voices, ALEX_LATORRE_VOICE_ID,
                   GOOGLE_API_KEY, phase, nAudio, nClones, req>>

(***************************************************************************)
(* Initial states.  The store holds one account (registered with code K0)  *)
(* and two unused activation codes; the process is being started.          *)
(***************************************************************************)
AlexLatorreVoice ==
    [name |-> <<"A","l","e","x"," ","L","a","t","o","r","r","e">>,
     category |-> "premade", voice_id |-> "vA"]

\* the clone the first account may own: created by an earlier
\* generate-voice-clone request of that account
CarolClone ==
    [name |-> Carol \o <<"_">> \o lang_code_map("english"),
     category |-> "cloned", voice_id |-> "c0"]

account(count, reset, language, clone, loggedIn) ==
    [username |-> Carol, email |-> CarolMail,
     password |-> bcrypt_hashpw("pw1"), loggedIn |-> loggedIn,
     charCount |-> count, lastCharReset |-> reset,
     voice_clone_id |-> clone, language |-> language,
     voice_similarity |-> 85, stability |-> 70,
     add_background_sound |-> TRUE, background_volume |-> 50]

InitStore(counts, resets, languages, clones, flags) ==
    /\ \E count \in counts, reset \in resets, language \in languages,
          clone \in clones, loggedIn \in flags :
          users = [u \in {"u1"} |-> account(count, reset, language, clone, loggedIn)]
    /\ codes = [c \in {"K0", "K1", "K2"} |->
                  IF c = "K0" THEN [used |-> TRUE, used_by |-> "u1",
                                    used_for_password_reset |-> FALSE]
                  ELSE [used |-> FALSE, used_by |-> NoUid,
                        used_for_password_reset |-> FALSE]]

InitProcess(directories, keys) ==
    /\ voices \in directories
    /\ ALEX_LATORRE_VOICE_ID = NoVoice
    /\ GOOGLE_API_KEY \in keys
    /\ phase = "starting"
    /\ tokens = {}
    /\ now = 0
    /\ ticks = 0
    /\ nAudio = 0
    /\ nClones = 0
    /\ req = [p \in Procs |-> Idle]

(***************************************************************************)
(* The generation orchestrator: generate-audio requests, one at a time,    *)
(* and the clock.  A handler reads the clock once, so with one request at  *)
(* a time the clock advancing between requests covers every case.          *)
(***************************************************************************)
Serial(p) == p = "r1" /\ \A q \in Procs : Free(q)

Init ==
    /\ InitStore(InitCounts, {NoDate, 0}, Languages, {NoVoice, "c0"}, {FALSE})
    /\ InitProcess({<<>>, <<AlexLatorreVoice>>}, BOOLEAN)

GenerateAudioStep(p) ==
    \/ \E answers \in BOOLEAN : GenerateAudioVoice(p, answers)
    \/ GenerateAudioQuota(p)
    \/ GenerateAudioFilter(p)
    \/ \E answer \in GeneratorAnswers : GenerateAudioText(p, answer)
    \/ GenerateAudioCharge(p)
    \/ \E outcome \in TtsOutcomes : GenerateAudioTts(p, outcome)

Next ==
    \/ \E answers \in BOOLEAN : Startup(answers)
    \/ \E p \in Procs, u \in UIDs, topic \in Topics, value \in Values :
          Serial(p) /\ BeginGenerateAudio(p, u, topic, value)
    \/ \E p \in Procs : GenerateAudioStep(p)
    \/ \E months \in {1, 12} : (\A q \in Procs : Free(q)) /\ Tick(months)

Spec == Init /\ [][Next]_vars

(***************************************************************************)
(* The validation of generate-audio requests: any body, one request at a   *)
(* time, and the clock in months.                                          *)
(***************************************************************************)
AudioBodies == {"json", "json_falsy", "json_not_object", "form", "form_empty"}

AudioFields ==
    {Missing, NotString, Str(<<>>), Str(<<" ">>), Str(<<"t","r","i","p">>)}

\* the requests a client can send: a form has strings only, and a body that
\* is not an object or a form has no field
AudioRequests ==
    {<<body, topic, value, stability, similarity_boost>> \in
        AudioBodies \X AudioFields \X {Missing, Str(<<" ">>), Str(<<"R","o","m","e">>)}
            \X {Absent, Number(50), Boolean(TRUE), Text("muy alto")}
            \X {Absent, Text("muy alto")} :
        /\ body = "form" => /\ topic.kind # "not_string"
                            /\ stability.kind # "bool"
        /\ body \notin {"json", "form"}
              => /\ topic = Missing /\ value = Missing
                 /\ stability = Absent /\ similarity_boost = Absent}

InitValidation ==
    /\ InitStore({4999}, {0}, {"english"}, {NoVoice}, {TRUE})
    /\ InitProcess({<<AlexLatorreVoice>>}, {TRUE})

NextValidation ==
    \/ \E answers \in BOOLEAN : Startup(answers)
    \/ \E p \in Procs, request \in AudioRequests :
          /\ Serial(p)
          /\ BeginGenerateAudioRequest(p, "u1", request[1], request[2],
                                       request[3], request[4], request[5])
    \/ \E p \in Procs : GenerateAudioStep(p)
    \/ (\A q \in Procs : Free(q)) /\ Tick(1)

SpecValidation == InitValidation /\ [][NextValidation]_vars

(***************************************************************************)
(* Voice selection: generate-audio requests of two accounts, one that owns *)
(* a clone and one that does not, one request at a time, over directories  *)
(* of the voice service with and without the default voice.                *)
(***************************************************************************)
InitVoices ==
    /\ users = [u \in {"u1", "u2"} |->
                  IF u = "u1" THEN account(0, 0, "english", "c0", TRUE)
                  ELSE [account(0, 0, "english", NoVoice, TRUE)
                           EXCEPT !.username = Alice, !.email = AliceMail]]
    /\ codes = [c \in {"K0", "K1", "K2"} |->
                  [used |-> c # "K2",
                   used_by |-> CASE c = "K0" -> "u1" [] c = "K1" -> "u2"
                                 [] OTHER -> NoUid,
                   used_for_password_reset |-> FALSE]]
    /\ InitProcess({<<CarolClone>>, <<AlexLatorreVoice, CarolClone>>,
                    <<CarolClone, AlexLatorreVoice>>, <<>>}, BOOLEAN)

NextVoices ==
    \/ \E answers \in BOOLEAN : Startup(answers)
    \/ \E p \in Procs, u \in {"u1", "u2"}, value \in Values :
          Serial(p) /\ BeginGenerateAudio(p, u, <<"t","r","i","p">>, value)
    \/ \E p \in Procs : GenerateAudioStep(p)

SpecVoices == InitVoices /\ [][NextVoices]_vars

(***************************************************************************)
(* generate-audio with the requests of all workers interleaved, for one    *)
(* account that owns a clone, within one calendar month.                   *)
(***************************************************************************)
InitAudioConcurrent ==
    /\ InitStore({0}, {0}, {"english"}, {"c0"}, {TRUE})
    /\ InitProcess({<<AlexLatorreVoice, CarolClone>>}, {TRUE})

NextAudioConcurrent ==
    \/ \E answers \in BOOLEAN : Startup(answers)
    \/ \E p \in Procs :
          /\ Free(p)
          /\ BeginGenerateAudio(p, "u1", <<"t","r","i","p">>, <<"R","o","m","e">>)
    \/ \E p \in Procs : GenerateAudioStep(p)

SpecAudioConcurrent == InitAudioConcurrent /\ [][NextAudioConcurrent]_vars

(***************************************************************************)
(* login with the requests of all workers interleaved, and no logout.      *)
(***************************************************************************)
InitLoginConcurrent ==
    /\ InitStore({0}, {0}, {"english"}, {NoVoice}, {FALSE})
    /\ InitProcess({<<AlexLatorreVoice>>}, {TRUE})

NextLoginConcurrent ==
    \/ \E answers \in BOOLEAN : Startup(answers)
    \/ \E p \in Procs, id \in LoginNames, password \in Passwords :
          Free(p) /\ BeginLogin(p, id, password)
    \/ \E p \in Procs : LoginSetLoggedIn(p)

SpecLoginConcurrent == InitLoginConcurrent /\ [][NextLoginConcurrent]_vars

(***************************************************************************)
(* generate-audio over the months: the requests of an account that owns a  *)
(* clone, one at a time on any worker, and the clock in months.  The       *)
(* account may have no lastCharReset (one created before the field was     *)
(* introduced).                                                            *)
(***************************************************************************)
InitMonths ==
    /\ InitStore({4999, 5000}, {NoDate, 0}, {"english"}, {"c0"}, {TRUE})
    /\ InitProcess({<<AlexLatorreVoice, CarolClone>>}, {TRUE})

NextMonths ==
    \/ \E answers \in BOOLEAN : Startup(answers)
    \/ \E p \in Procs :
          /\ \A q \in Procs : Free(q)
          /\ BeginGenerateAudio(p, "u1", <<"t","r","i","p">>, <<"R","o","m","e">>)
    \/ \E p \in Procs : GenerateAudioStep(p)
    \/ \E months \in {1, 12} : (\A q \in Procs : Free(q)) /\ Tick(months)

SpecMonths == InitMonths /\ [][NextMonths]_vars

(***************************************************************************)
(* The external calls of generate-audio in both variants of the service:   *)
(* requests of an account with or without a clone, one at a time.          *)
(***************************************************************************)
InitGenerators ==
    /\ InitStore({0}, {0}, {"english"}, {NoVoice, "c0"}, {TRUE})
    /\ InitProcess({<<>>, <<AlexLatorreVoice, CarolClone>>}, BOOLEAN)

NextGenerators ==
    \/ \E answers \in BOOLEAN : Startup(answers)
    \/ \E p \in Procs, topic \in Topics :
          Serial(p) /\ BeginGenerateAudio(p, "u1", topic, <<"R","o","m","e">>)
    \/ \E p \in Procs : GenerateAudioStep(p)
    \/ \E p \in Procs, topic \in Topics :
          Serial(p) /\ PrebaalexBeginGenerateAudio(p, "u1", topic, <<"R","o","m","e">>)
    \/ \E p \in Procs, answers \in BOOLEAN : PrebaalexVoice(p, answers)
    \/ \E p \in Procs, sdk \in SdkAnswers, rest \in RestAnswers :
          PrebaalexText(p, sdk, rest)
    \/ \E p \in Procs, outcome \in TtsOutcomes : PrebaalexTts(p, outcome)

SpecGenerators == InitGenerators /\ [][NextGenerators]_vars

(***************************************************************************)
(* The default-voice cache with the requests of all workers interleaved:   *)
(* generate-audio requests of an account without a clone, while the        *)
(* directory of the voice service changes.                                 *)
(***************************************************************************)
CacheDirectories ==
    {<<>>, <<CarolClone>>, <<AlexLatorreVoice, CarolClone>>}

InitCache ==
    /\ InitStore({0}, {0}, {"english"}, {NoVoice}, {TRUE})
    /\ InitProcess(CacheDirectories, {TRUE})

NextCache ==
    \/ \E answers \in BOOLEAN : Startup(answers)
    \/ \E p \in Procs :
          /\ Free(p)
          /\ BeginGenerateAudio(p, "u1", <<"t","r","i","p">>, <<"R","o","m","e">>)
    \/ \E p \in Procs : GenerateAudioVoiceRead(p)
    \/ \E p \in Procs : VoiceIdCached(p)
    \/ \E p \in Procs, answers \in BOOLEAN : VoiceIdLookup(p, answers)
    \/ \E p \in Procs : GenerateAudioQuota(p)
    \/ \E p \in Procs : GenerateAudioFilter(p)
    \/ \E p \in Procs, answer \in GeneratorAnswers : GenerateAudioText(p, answer)
    \/ \E p \in Procs : GenerateAudioCharge(p)
    \/ \E p \in Procs, outcome \in TtsOutcomes : GenerateAudioTts(p, outcome)
    \/ \E vs \in CacheDirectories : DirectoryChange(vs)

SpecCache == InitCache /\ [][NextCache]_vars

(***************************************************************************)
(* Accounts and sessions: register and login requests, one at a time.      *)
(***************************************************************************)
InitAccounts ==
    /\ InitStore({0}, {0}, {"english"}, {NoVoice}, BOOLEAN)
    /\ InitProcess({<<AlexLatorreVoice>>}, {TRUE})

\* store_answers: whether the writes of the store may fail
RegisterStep(p, store_answers) ==
    \/ RegisterFindCode(p)
    \/ RegisterFindUsername(p)
    \/ RegisterFindEmail(p)
    \/ \E ok \in store_answers : RegisterInsert(p, ok)
    \/ \E ok \in store_answers : RegisterMarkCode(p, ok)

NextAccounts ==
    \/ \E answers \in BOOLEAN : Startup(answers)
    \/ \E p \in Procs, username \in Usernames, email \in Emails,
          code \in ActivationCodes :
          Serial(p) /\ BeginRegister(p, username, email, "pw1", code)
    \/ \E p \in Procs, id \in LoginNames, password \in Passwords :
          Serial(p) /\ BeginLogin(p, id, password)
    \/ \E p \in Procs : RegisterStep(p, BOOLEAN)
    \/ \E p \in Procs : LoginSetLoggedIn(p)

SpecAccounts == InitAccounts /\ [][NextAccounts]_vars

(***************************************************************************)
(* Sessions: login and the token-protected endpoints of the account, one   *)
(* request at a time, and the clock in hours.  The clients send any header *)
(* made of the tokens that login has handed out.                           *)
(***************************************************************************)
SettingsPayload(language, similarity, stability, add_bg_sound, bg_volume, other_keys) ==
    [language |-> language, voice_similarity |-> similarity,
     stability |-> stability, add_background_sound |-> add_bg_sound,
     background_volume |-> bg_volume, other_keys |-> other_keys]

\* the account whose token the client sends as "Bearer <token>" is admitted
Authenticated(u, at_exp) ==
    \E h \in BearerHeaders(tokens) :
        LET auth == token_required(h, users, now, at_exp)
        IN  auth.status = 0 /\ auth.uid = u

InitSession ==
    /\ InitStore({4999}, {0}, {"english"}, {NoVoice}, {FALSE})
    /\ InitProcess({<<AlexLatorreVoice>>}, {TRUE})

NextSession ==
    \/ \E answers \in BOOLEAN : Startup(answers)
    \/ \E p \in Procs, password \in Passwords :
          Serial(p) /\ BeginLogin(p, Carol, password)
    \/ \E p \in Procs : LoginSetLoggedIn(p)
    \/ \E p \in Procs, header \in Headers(tokens), at_exp \in BOOLEAN :
          Serial(p) /\ BeginLogout(p, header, at_exp)
    \/ \E p \in Procs, header \in Headers(tokens), at_exp \in BOOLEAN :
          Serial(p) /\ BeginForceLogout(p, header, at_exp)
    \/ \E p \in Procs : LogoutWrite(p)
    \/ \E p \in Procs, header \in Headers(tokens), at_exp \in BOOLEAN :
          Serial(p) /\ BeginCharacterUsage(p, header, at_exp)
    \/ \E p \in Procs : CharacterUsage(p)
    \/ \E p \in Procs, header \in Headers(tokens), at_exp \in BOOLEAN :
          Serial(p) /\ BeginUpdateSettings(p, header, at_exp,
                          SettingsPayload(Absent, Absent, Number(100), Absent,
                                          Absent, FALSE))
    \/ \E p \in Procs : UpdateSettings(p)
    \/ \E hours \in {1, TokenLifetimeHours} :
          (\A q \in Procs : Free(q)) /\ Pass(hours)

SpecSession == InitSession /\ [][NextSession]_vars

(***************************************************************************)
(* Character usage over the months: login and GET /character-usage, one    *)
(* request at a time, and the clock in months.                             *)
(***************************************************************************)
InitUsage ==
    /\ InitStore(InitCounts \cup {5002}, {NoDate, 0}, {"english"}, {NoVoice}, {FALSE})
    /\ InitProcess({<<AlexLatorreVoice>>}, {TRUE})

NextUsage ==
    \/ \E answers \in BOOLEAN : Startup(answers)
    \/ \E p \in Procs, password \in Passwords :
          Serial(p) /\ BeginLogin(p, Carol, password)
    \/ \E p \in Procs : LoginSetLoggedIn(p)
    \/ \E p \in Procs, header \in BearerHeaders(tokens) \cup {NoHeader} :
          Serial(p) /\ BeginForceLogout(p, header, FALSE)
    \/ \E p \in Procs : LogoutWrite(p)
    \/ \E p \in Procs, header \in BearerHeaders(tokens) \cup {NoHeader} :
          Serial(p) /\ BeginCharacterUsage(p, header, FALSE)
    \/ \E p \in Procs : CharacterUsage(p)
    \/ \E months \in {1, 12} : (\A q \in Procs : Free(q)) /\ Tick(months)

SpecUsage == InitUsage /\ [][NextUsage]_vars

(***************************************************************************)
(* Settings: register, login and POST /update-settings with any payload,   *)
(* one request at a time.                                                  *)
(***************************************************************************)
Coefficients == {Absent, Number(-1), Number(100), Number(101)}

\* payloads with every combination of the three coefficients, and payloads
\* with the other fields
SettingsPayloads ==
    {SettingsPayload(Absent, voice_similarity, stability, Absent,
                     background_volume, FALSE) :
        voice_similarity \in Coefficients,
        stability \in {Absent, Number(0), Number(101), Text("high"),
                       Boolean(TRUE)},
        background_volume \in Coefficients}
    \cup
    {SettingsPayload(language, Absent, Number(100), add_background_sound,
                     Absent, other_keys) :
        language \in {Text("spanish"), Text("klingon")},
        add_background_sound \in {Boolean(FALSE), Text("yes")},
        other_keys \in BOOLEAN}
    \cup
    {SettingsPayload(Absent, Absent, Absent, Absent, Absent, TRUE)}

InitSettings ==
    /\ InitStore({0}, {0}, {"english"}, {NoVoice}, {FALSE})
    /\ InitProcess({<<AlexLatorreVoice>>}, {TRUE})

NextSettings ==
    \/ \E answers \in BOOLEAN : Startup(answers)
    \/ \E p \in Procs :
          Serial(p) /\ BeginRegister(p, Alice, AliceMail, "pw1", "K1")
    \/ \E p \in Procs : RegisterStep(p, {TRUE})
    \/ \E p \in Procs, password \in Passwords :
          Serial(p) /\ BeginLogin(p, Alice, password)
    \/ \E p \in Procs : LoginSetLoggedIn(p)
    \/ \E p \in Procs, header \in BearerHeaders(tokens),
          data \in SettingsPayloads :
          Serial(p) /\ BeginUpdateSettings(p, header, FALSE, data)
    \/ \E p \in Procs : UpdateSettings(p)

SpecSettings == InitSettings /\ [][NextSettings]_vars

(***************************************************************************)
(* The session flag over time: login, logout, force-logout, reset-password *)
(* and GET /character-usage for one account, one request at a time, and    *)
(* the clock in hours.  The clients send the tokens login has handed out,  *)
(* expired or not.                                                         *)
(***************************************************************************)
InitLockout ==
    /\ InitStore({4999}, {0}, {"english"}, {NoVoice}, BOOLEAN)
    /\ InitProcess({<<AlexLatorreVoice>>}, {TRUE})

NextLockout ==
    \/ \E answers \in BOOLEAN : Startup(answers)
    \/ \E p \in Procs, password \in Passwords :
          Serial(p) /\ BeginLogin(p, Carol, password)
    \/ \E p \in Procs : LoginSetLoggedIn(p)
    \/ \E p \in Procs, header \in BearerHeaders(tokens) :
          Serial(p) /\ BeginLogout(p, header, FALSE)
    \/ \E p \in Procs, header \in BearerHeaders(tokens) :
          Serial(p) /\ BeginForceLogout(p, header, FALSE)
    \/ \E p \in Procs : LogoutWrite(p)
    \/ \E p \in Procs, header \in BearerHeaders(tokens) :
          Serial(p) /\ BeginCharacterUsage(p, header, FALSE)
    \/ \E p \in Procs : CharacterUsage(p)
    \/ \E p \in Procs, code \in {"K1", "K9"} :
          Serial(p) /\ BeginResetPassword(p, CarolMail, code, "pw1")
    \/ \E p \in Procs : ResetPasswordStep(p)
    \/ \E hours \in {1, TokenLifetimeHours} :
          (\A q \in Procs : Free(q)) /\ Pass(hours)

SpecLockout == InitLockout /\ [][NextLockout]_vars

(***************************************************************************)
(* Password resets: register and reset-password requests with any code and *)
(* any account's email, one at a time.  The first account was registered   *)
(* with code K0; a second one can register with K1.                        *)
(***************************************************************************)
InitReset ==
    /\ InitStore({0}, {0}, {"english"}, {NoVoice}, BOOLEAN)
    /\ InitProcess({<<AlexLatorreVoice>>}, {TRUE})

NextReset ==
    \/ \E answers \in BOOLEAN : Startup(answers)
    \/ \E p \in Procs :
          Serial(p) /\ BeginRegister(p, Alice, AliceMail, "pw1", "K1")
    \/ \E p \in Procs : RegisterStep(p, {TRUE})
    \/ \E p \in Procs, email \in {CarolMail, AliceMail, BobMail},
          code \in ActivationCodes, new_password \in {"pw2", ""} :
          Serial(p) /\ BeginResetPassword(p, email, code, new_password)
    \/ \E p \in Procs : ResetPasswordStep(p)

SpecReset == InitReset /\ [][NextReset]_vars

(***************************************************************************)
(* Every endpoint, one request at a time, with the clock standing still.   *)
(***************************************************************************)
InitEndpoints ==
    /\ InitStore({4999}, {0}, {"english"}, {"c0"}, {FALSE})
    /\ InitProcess({<<AlexLatorreVoice, CarolClone>>}, {TRUE})

NextEndpoints ==
    \/ \E answers \in BOOLEAN : Startup(answers)
    \/ \E p \in Procs, username \in {Alice}, code \in {"K1"} :
          Serial(p) /\ BeginRegister(p, username, AliceMail, "pw1", code)
    \/ \E p \in Procs : RegisterStep(p, {TRUE})
    \/ \E p \in Procs, id \in {Carol} :
          Serial(p) /\ BeginLogin(p, id, "pw1")
    \/ \E p \in Procs : LoginSetLoggedIn(p)
    \/ \E p \in Procs, header \in BearerHeaders(tokens) :
          Serial(p) /\ BeginLogout(p, header, FALSE)
    \/ \E p \in Procs, header \in BearerHeaders(tokens) :
          Serial(p) /\ BeginForceLogout(p, header, FALSE)
    \/ \E p \in Procs : LogoutWrite(p)
    \/ \E p \in Procs, header \in BearerHeaders(tokens) :
          Serial(p) /\ BeginCharacterUsage(p, header, FALSE)
    \/ \E p \in Procs : CharacterUsage(p)
    \/ \E p \in Procs, header \in BearerHeaders(tokens) :
          Serial(p) /\ BeginUpdateSettings(p, header, FALSE,
                          SettingsPayload(Absent, Absent, Number(100), Absent,
                                          Absent, FALSE))
    \/ \E p \in Procs : UpdateSettings(p)
    \/ \E p \in Procs, email \in {CarolMail, BobMail}, code \in {"K1", "K9"} :
          Serial(p) /\ BeginResetPassword(p, email, code, "pw1")
    \/ \E p \in Procs : ResetPasswordStep(p)
    \/ \E p \in Procs, u \in UIDs :
          /\ Serial(p) /\ Authenticated(u, FALSE)
          /\ BeginGenerateAudio(p, u, <<"t","r","i","p">>, <<"R","o","m","e">>)
    \/ \E p \in Procs : GenerateAudioStep(p)
    \/ \E p \in Procs, u \in UIDs :
          /\ Serial(p) /\ Authenticated(u, FALSE)
          /\ BeginGenerateVoiceClone(p, u, TRUE, "sample")
    \/ \E p \in Procs, u \in UIDs :
          /\ Serial(p) /\ Authenticated(u, FALSE)
          /\ BeginDeleteVoiceClone(p, u)
    \/ \E p \in Procs, ok \in BOOLEAN : VoiceCloneDeleteOld(p, ok)
    \/ \E p \in Procs : VoiceCloneUnsetOld(p)
    \/ \E p \in Procs, outcome \in CloneOutcomes : VoiceCloneAdd(p, outcome)
    \/ \E p \in Procs : VoiceCloneStore(p)
    \/ \E p \in Procs, ok \in BOOLEAN : DeleteVoiceCloneExternal(p, ok)
    \/ \E p \in Procs : DeleteVoiceCloneUnset(p)

SpecEndpoints == InitEndpoints /\ [][NextEndpoints]_vars

(***************************************************************************)
(* Registration with the requests of all workers interleaved.              *)
(***************************************************************************)
NextRegisterConcurrent ==
    \/ \E answers \in BOOLEAN : Startup(answers)
    \/ \E p \in Procs, username \in Usernames, email \in Emails,
          code \in {"K1", "K2"} :
          Free(p) /\ BeginRegister(p, username, email, "pw1", code)
    \/ \E p \in Procs : RegisterStep(p, {TRUE})

InitRegisterConcurrent ==
    /\ InitStore({0}, {0}, {"english"}, {NoVoice}, {FALSE})
    /\ InitProcess({<<AlexLatorreVoice>>}, {TRUE})

SpecRegisterConcurrent == InitRegisterConcurrent /\ [][NextRegisterConcurrent]_vars

(***************************************************************************)
(* The voice clones: generate-voice-clone and delete-voice-clone requests, *)
(* one at a time.                                                          *)
(***************************************************************************)
InitClones ==
    /\ InitStore({0}, {0}, Languages, {NoVoice, "c0"}, {FALSE})
    /\ InitProcess({<<AlexLatorreVoice>>, <<AlexLatorreVoice, CarolClone>>}, {TRUE})

NextClones ==
    \/ \E answers \in BOOLEAN : Startup(answers)
    \/ \E p \in Procs, u \in UIDs, overwrite \in BOOLEAN, audio \in AudioFiles :
          Serial(p) /\ BeginGenerateVoiceClone(p, u, overwrite, audio)
    \/ \E p \in Procs, u \in UIDs : Serial(p) /\ BeginDeleteVoiceClone(p, u)
    \/ \E p \in Procs, ok \in BOOLEAN : VoiceCloneDeleteOld(p, ok)
    \/ \E p \in Procs : VoiceCloneUnsetOld(p)
    \/ \E p \in Procs, outcome \in CloneOutcomes : VoiceCloneAdd(p, outcome)
    \/ \E p \in Procs : VoiceCloneStore(p)
    \/ \E p \in Procs, ok \in BOOLEAN : DeleteVoiceCloneExternal(p, ok)
    \/ \E p \in Procs : DeleteVoiceCloneUnset(p)

SpecClones == InitClones /\ [][NextClones]_vars

(***************************************************************************)
(* The life of a clone: the same requests, one at a time, from a store     *)
(* that agrees with the voice service: the account has no clone, or it has *)
(* the clone c0 and the voice c0 exists.                                   *)
(***************************************************************************)
InitCloneLife ==
    /\ \/ /\ InitStore({0}, {0}, Languages, {NoVoice}, {FALSE})
          /\ InitProcess({<<AlexLatorreVoice>>}, {TRUE})
       \/ /\ InitStore({0}, {0}, Languages, {"c0"}, {FALSE})
          /\ InitProcess({<<AlexLatorreVoice, CarolClone>>}, {TRUE})

SpecCloneLife == InitCloneLife /\ [][NextClones]_vars

(***************************************************************************)
(* The default voice at startup, over every voice directory of up to       *)
(* MaxVoices entries, when the directory answers.                          *)
(***************************************************************************)
DirectoryNames ==
    { <<"A","l","e","x"," ","L","a","t","o","r","r","e">>,
      <<"a","l","e","x"," ","l","a","t","o","r","r","e">>,
      <<"a","l","e","x","l","a","t","o","r","r","e","_","e","n">>,
      <<"D","e","f","a","u","l","t">>,
      <<"b","o","_","e","n">> }

DirectoryIds == <<"v1", "v2", "v3", "v4">>

Directories ==
    UNION { { [i \in 1..n |-> [name |-> names[i], category |-> categories[i],
                                voice_id |-> DirectoryIds[i]]] :
                names \in [1..n -> DirectoryNames],
                categories \in [1..n -> {"cloned", "premade"}] } :
            n \in 0..MaxVoices }

InitDirectory ==
    /\ InitStore({0}, {0}, {"english"}, {NoVoice}, {FALSE})
    /\ InitProcess(Directories, {TRUE})

NextDirectory == Startup(TRUE)

SpecDirectory == InitDirectory /\ [][NextDirectory]_vars

(***************************************************************************)
(* Properties of generate_audio, checked under Spec.                       *)
(***************************************************************************)
AudioDone(p) == req[p].op = "generate_audio" /\ req[p].pc = "done"

\* topic and value both hold something other than blanks
HasContent(text) == \E i \in 1..Len(text) : text[i] # " "
ValidAudioInput(p) == HasContent(req[p].in.topic) /\ HasContent(req[p].in.value)

\* the count of an account at time t, the monthly rollover applied
ResetAwareCount(acc, t) ==
    IF /\ acc.lastCharReset # NoDate
       /\ <<month(t), year(t)>> # <<month(acc.lastCharReset), year(acc.lastCharReset)>>
    THEN 0
    ELSE acc.charCount

OverQuota(p) ==
    ResetAwareCount(req[p].pre[req[p].uid], req[p].at) >= 5000

QuotaFieldsUnchanged(p) ==
    /\ users[req[p].uid].charCount = req[p].pre[req[p].uid].charCount
    /\ users[req[p].uid].lastCharReset = req[p].pre[req[p].uid].lastCharReset

ChargeOnlyAfterSynthesis ==
    \A p \in Procs :
        AudioDone(p) /\ req[p].loc.tts_calls = 1 /\ req[p].status # 200
            => users[req[p].uid].charCount
                   <= ResetAwareCount(req[p].pre[req[p].uid], req[p].at)

\* the month of the last reset is not the month of the request
ResetDue(p) ==
    LET acc == req[p].pre[req[p].uid]
    IN  /\ acc.lastCharReset # NoDate
        /\ \/ month(req[p].at) # month(acc.lastCharReset)
           \/ year(req[p].at) # year(acc.lastCharReset)

MentionsDenylisted(text) ==
    \E pattern \in inappropriate_patterns :
        \E offset \in 0..(Len(text) - Len(pattern)) :
            \A k \in 1..Len(pattern) :
                \/ text[offset + k] = pattern[k]
                \/ /\ text[offset + k] \in DOMAIN UpperToLower
                   /\ UpperToLower[text[offset + k]] = pattern[k]

\* C6: when the topic or the value of a generate-audio request holds a
\* denylisted term as a substring, in any letter case, the text generator
\* is never called for it, and what the synthesizer is handed is the fixed
\* phrase for inappropriate input in the language of the account.
SafetyShortCircuit ==
    \A p \in Procs :
        ( /\ req[p].op = "generate_audio"
          /\ \/ MentionsDenylisted(req[p].in.topic)
             \/ MentionsDenylisted(req[p].in.value) )
        => /\ req[p].loc.gen_calls = 0
           /\ (req[p].loc.tts_calls = 1) =>
                 ( /\ req[p].loc.tts_text.kind = "inappropriate_fallback"
                   /\ req[p].loc.tts_text.spanish
                          = (req[p].pre[req[p].uid].language = "spanish") )

SafetyShortCircuitWitness ==
    \E p \in Procs :
        /\ AudioDone(p) /\ req[p].status = 200
        /\ req[p].in.topic = <<"t","r","i","p">>
        /\ req[p].in.value = <<"K","i","L","L">>
        /\ GOOGLE_API_KEY
        /\ req[p].pre[req[p].uid].language = "spanish"
        /\ req[p].loc.tts_text = inappropriate_fallback_text("spanish")

\* C10 as stated: whenever the call of the text generator fails, by raising
\* or by answering without a text, the request goes on to the synthesis
\* call, and the text handed to the synthesizer is the fixed fallback
\* phrase in the language of the account.
GeneratorFailureFallsBack ==
    \A p \in Procs :
        AudioDone(p) /\ req[p].loc.gen_outcome \in {"raise", "no_text"}
            => /\ req[p].loc.tts_calls = 1
               /\ req[p].loc.tts_text.kind = "thought_fallback"
               /\ req[p].loc.tts_text.spanish
                      = (req[p].pre[req[p].uid].language = "spanish")

\* C11: whenever the synthesizer answers a generate-audio request with an
\* error status, the request ends with that status and the body of that
\* answer as its error, and no audio is delivered.
SynthesisFailureFatal ==
    \A p \in Procs :
        ( /\ AudioDone(p)
          /\ req[p].loc.tts_calls = 1
          /\ req[p].loc.upstream \notin {0, 200} )
        => /\ req[p].status = req[p].loc.upstream
           /\ req[p].status # 200
           /\ req[p].loc.body = "upstream_body"

SynthesisFailureFatalWitness ==
    \E p \in Procs :
        /\ AudioDone(p)
        /\ req[p].loc.upstream = 422
        /\ req[p].status = 422
        /\ req[p].loc.tts_text.kind = "generated"

\* C12: after a generate-audio request answered 200 with the audio, the
\* stored charCount of the account is the reset-aware count at the start of
\* the request plus half the length, rounded down, of the text sent to the
\* synthesizer; twice the increase never exceeds that length.
ChargeAmount ==
    \A p \in Procs :
        AudioDone(p) /\ req[p].status = 200
            => LET before == ResetAwareCount(req[p].pre[req[p].uid], req[p].at)
                   after == users[req[p].uid].charCount
                   length == req[p].loc.tts_text.len
               IN  /\ req[p].loc.body = "audio"
                   /\ \E half \in 0..length :
                         /\ 2 * half <= length /\ length < 2 * half + 2
                         /\ after = before + half

ChargeAmountWitness ==
    \E p \in Procs :
        /\ AudioDone(p) /\ req[p].status = 200
        /\ req[p].pre[req[p].uid].charCount = 4999
        /\ req[p].loc.tts_text = generated(7)
        /\ users[req[p].uid].charCount = 5002

ExternalCalls(p) ==
    req[p].loc.dir_calls + req[p].loc.gen_calls + req[p].loc.tts_calls

LoginDone(p) == req[p].op = "login" /\ req[p].pc = "done"

\* the accounts the identifier of a login request names
LoginTarget(p) ==
    IF req[p].op # "login" THEN {}
    ELSE {u \in DOMAIN req[p].pre :
             \/ req[p].pre[u].email = req[p].in.email
             \/ req[p].pre[u].username = req[p].in.email}

PasswordMatches(p, u) ==
    req[p].pre[u].password = bcrypt_hashpw(req[p].in.password)

\* C4 as stated: a login request for an account whose loggedIn flag is true
\* is answered 409 whether the password is right or wrong, returns no
\* token, and leaves the flag true.
SingleSessionAlways409 ==
    \A p \in Procs : \A u \in LoginTarget(p) :
        LoginDone(p) /\ req[p].pre[u].loggedIn
            => /\ req[p].status = 409
               /\ req[p].loc.token = NoToken
               /\ users[u].loggedIn

\* C4: a login request for an account whose loggedIn flag is true never
\* returns a token and leaves the flag true; it is answered 409 when the
\* password is the account's and 401 when it is not, because the password
\* is verified before the flag is looked at.
SingleSession ==
    \A p \in Procs : \A u \in LoginTarget(p) :
        LoginDone(p) /\ req[p].pre[u].loggedIn
            => /\ req[p].status = IF PasswordMatches(p, u) THEN 409 ELSE 401
               /\ req[p].loc.token = NoToken
               /\ users[u].loggedIn

SingleSessionWitness ==
    \E p \in Procs : \E u \in LoginTarget(p) :
        /\ LoginDone(p) /\ req[p].pre[u].loggedIn
        /\ PasswordMatches(p, u)
        /\ req[p].status = 409

(***************************************************************************)
(* Properties of register, checked under SpecRegisterConcurrent.           *)
(***************************************************************************)
Registered(p) ==
    req[p].op = "register" /\ req[p].pc = "done" /\ req[p].status = 201

\* C5 as stated: however register requests interleave, no two of them that
\* present the same activation code are both answered 201, and once no
\* request is in flight there is one account for each used code.
ActivationCodeSingleUse ==
    /\ \A p, q \in Procs :
          Registered(p) /\ Registered(q) /\ p # q
              => req[p].in.activation_code # req[q].in.activation_code
    /\ (\A p \in Procs : Free(p)) =>
          Cardinality(DOMAIN users)
              = Cardinality({c \in DOMAIN codes : codes[c].used})

\* C17: however register requests interleave, no two accounts of the store
\* have the same username and no two the same email, and a register
\* request that is refused for a duplicate has created no account.
IdentityUnique ==
    /\ \A u, v \in DOMAIN users :
          u # v => /\ users[u].username # users[v].username
                   /\ users[u].email # users[v].email
    /\ \A p \in Procs :
          ( /\ req[p].op = "register" /\ req[p].pc = "done"
            /\ req[p].status \in {409, 500} )
          => req[p].loc.inserted_id = NoUid

IdentityUniqueWitness ==
    \E p, q \in Procs :
        /\ req[p].op = "register" /\ req[p].pc = "done" /\ req[p].status = 500
        /\ req[q].op = "register" /\ req[q].pc = "done" /\ req[q].status = 201
        /\ req[p].in.username = req[q].in.username
        /\ req[p].in.activation_code # req[q].in.activation_code
        /\ Cardinality(DOMAIN users) = 2

(***************************************************************************)
(* Properties of register, checked under SpecAccounts.                     *)
(***************************************************************************)
\* the accounts that name the code as theirs
ConsumersOf(c) == {u \in DOMAIN users : codes[c].used /\ codes[c].used_by = u}

\* C19 as stated: a register request that is not answered 201, whatever the
\* reason, has created no account and has left the activation codes as they
\* were; and once no request is in flight every account is the consumer of
\* exactly one used code.
RegistrationAllOrNothing ==
    /\ \A p \in Procs :
          ( /\ req[p].op = "register" /\ req[p].pc = "done"
            /\ req[p].status # 201 )
          => users = req[p].pre /\ codes = req[p].pre_codes
    /\ (\A p \in Procs : Free(p)) =>
          \A u \in DOMAIN users :
              Cardinality({c \in DOMAIN codes : u \in ConsumersOf(c)}) = 1

(***************************************************************************)
(* Properties of the voice clone requests, checked under SpecClones.       *)
(***************************************************************************)
DeleteCloneDone(p) == req[p].op = "delete_voice_clone" /\ req[p].pc = "done"

HadClone(p) == req[p].pre[req[p].uid].voice_clone_id # NoVoice

\* C7 as stated: after a delete-voice-clone request of an account that had
\* a clone, the account has no voice_clone_id, whether the delete at the
\* voice service succeeded or failed.
DeleteAlwaysClears ==
    \A p \in Procs :
        DeleteCloneDone(p) /\ HadClone(p)
            => users[req[p].uid].voice_clone_id = NoVoice

\* C7: a delete-voice-clone request of an account that had a clone clears
\* the stored voice_clone_id exactly when the delete at the voice service
\* succeeded, and is then answered 200; when that delete failed the request
\* is answered 500 and the account keeps its voice_clone_id.
DeleteClearsOnSuccess ==
    \A p \in Procs :
        DeleteCloneDone(p) /\ HadClone(p)
            => /\ req[p].loc.delete_calls = 1
               /\ IF req[p].loc.delete_ok
                  THEN /\ req[p].status = 200
                       /\ users[req[p].uid].voice_clone_id = NoVoice
                  ELSE /\ req[p].status = 500
                       /\ users[req[p].uid].voice_clone_id
                              = req[p].pre[req[p].uid].voice_clone_id

DeleteClearsOnSuccessWitness ==
    \E p \in Procs :
        /\ DeleteCloneDone(p) /\ HadClone(p)
        /\ ~req[p].loc.delete_ok
        /\ req[p].status = 500
        /\ users[req[p].uid].voice_clone_id = "c0"

\* C8: a generate-voice-clone request with overwrite false, of an account
\* that has a clone, is answered 200 with the stored identifier, calls the
\* voice service neither to delete nor to add a voice, and leaves every
\* account as it was; repeating it therefore gives the same identifier.
CloneIdempotentNoOverwrite ==
    \A p \in Procs :
        ( /\ req[p].op = "generate_voice_clone"
          /\ ~req[p].in.overwrite
          /\ HadClone(p) )
        => /\ req[p].pc = "done"
           /\ req[p].status = 200
           /\ req[p].loc.voice_clone_id = req[p].pre[req[p].uid].voice_clone_id
           /\ req[p].loc.delete_calls = 0
           /\ req[p].loc.add_calls = 0
           /\ users = req[p].pre

CloneIdempotentNoOverwriteWitness ==
    \E p \in Procs :
        /\ req[p].op = "generate_voice_clone" /\ req[p].pc = "done"
        /\ ~req[p].in.overwrite
        /\ req[p].pre[req[p].uid].voice_clone_id = "c1"
        /\ req[p].loc.voice_clone_id = "c1"
        /\ nClones = 2

(***************************************************************************)
(* Properties of the default voice, checked under SpecDirectory.           *)
(***************************************************************************)
\* the voice is named as given: letter for letter, or letter case ignored
Named(voice, name, ignore_case) ==
    IF ignore_case THEN lower(voice.name) = lower(name) ELSE voice.name = name

\* the positions in the directory of the voices of each tier
Tier1(ignore_case) ==
    {i \in 1..Len(voices) :
        Named(voices[i], <<"A","l","e","x"," ","L","a","t","o","r","r","e">>,
              ignore_case)}
Tier2(ignore_case) ==
    {i \in 1..Len(voices) :
        Named(voices[i], <<"a","l","e","x","l","a","t","o","r","r","e","_","e","n">>,
              ignore_case)}
Tier3(ignore_case) ==
    {i \in 1..Len(voices) :
        /\ voices[i].category = "cloned"
        /\ ~Named(voices[i], <<"d","e","f","a","u","l","t">>, ignore_case)}
Tier4 ==
    {i \in 1..Len(voices) : voices[i].category = "cloned"}

FirstOf(positions) ==
    voices[CHOOSE i \in positions : \A j \in positions : i <= j].voice_id

\* the default voice has the identifier the precedence of the tiers gives
FollowsPrecedence(ignore_case) ==
    IF Tier1(ignore_case) # {}
    THEN \E i \in Tier1(ignore_case) : ALEX_LATORRE_VOICE_ID = voices[i].voice_id
    ELSE IF Tier2(ignore_case) # {}
    THEN \E i \in Tier2(ignore_case) : ALEX_LATORRE_VOICE_ID = voices[i].voice_id
    ELSE IF Tier3(ignore_case) # {}
    THEN ALEX_LATORRE_VOICE_ID = FirstOf(Tier3(ignore_case))
    ELSE IF Tier4 # {}
    THEN ALEX_LATORRE_VOICE_ID = FirstOf(Tier4)
    ELSE ALEX_LATORRE_VOICE_ID = NoVoice

UsageDone(p) ==
    req[p].op = "character_usage" /\ req[p].pc = "done" /\ req[p].status = 200

\* C13 as stated: after a character-usage request, whatever the date, the
\* stored charCount and lastCharReset of the account are what they were
\* before it.
UsageReadOnly ==
    \A p \in Procs :
        UsageDone(p)
            => /\ users[req[p].uid].charCount = req[p].pre[req[p].uid].charCount
               /\ users[req[p].uid].lastCharReset =
                      req[p].pre[req[p].uid].lastCharReset

\* C13: a character-usage request leaves the store as it was, except when
\* its date is in another calendar month than the account's lastCharReset:
\* then it stores charCount 0 and lastCharReset now, and nothing else.
UsageReadOnlyWithinMonth ==
    \A p \in Procs :
        UsageDone(p)
            => ( /\ codes = req[p].pre_codes
                 /\ IF ResetDue(p)
                    THEN users = [req[p].pre EXCEPT
                                     ![req[p].uid].charCount = 0,
                                     ![req[p].uid].lastCharReset = req[p].at]
                    ELSE users = req[p].pre )

UsageReadOnlyWithinMonthWitness ==
    \E p \in Procs :
        /\ UsageDone(p) /\ ResetDue(p)
        /\ req[p].pre[req[p].uid].charCount = 4999
        /\ users[req[p].uid].charCount = 0
        /\ users[req[p].uid].lastCharReset = now
        /\ now > 0


(***************************************************************************)
(* Properties of the loggedIn flag, checked under SpecEndpoints.           *)
(***************************************************************************)
\* the step changes the loggedIn flag of the existing account u
LoggedInChanged(u) == users'[u].loggedIn # users[u].loggedIn

\* the step is the write of a successful login of u, from false to true
LoginIssues(u) ==
    \E p \in Procs :
        /\ req[p].op = "login" /\ req[p].pc = "set_logged_in" /\ req[p].uid = u
        /\ req'[p].pc = "done" /\ req'[p].status = 200
        /\ ~users[u].loggedIn /\ users'[u].loggedIn

\* the step is a write of a request of one of the handlers ops, and sets the
\* flag of u to false
Revokes(u, ops) ==
    \E p \in Procs :
        /\ req[p].op \in ops /\ req[p].pc # "done" /\ req[p].uid = u
        /\ ~users'[u].loggedIn

\* C14 as stated: the loggedIn flag of an existing account changes only in
\* the write of a successful login (to true) or in a logout (to false).
LoggedInOnlyLoginLogout ==
    [][\A u \in DOMAIN users :
          LoggedInChanged(u) => LoginIssues(u) \/ Revokes(u, {"logout"})]_vars

\* C14: the loggedIn flag of an existing account changes only in the write
\* of a successful login (false to true), or to false in a logout, a
\* force-logout or the password update of a reset-password request; no step
\* of any other handler changes it.
LoggedInOnlySessionHandlers ==
    [][\A u \in DOMAIN users :
          LoggedInChanged(u)
              => \/ LoginIssues(u)
                 \/ Revokes(u, {"logout", "force_logout", "reset_password"})]_vars

LoggedInOnlySessionHandlersWitness ==
    \E p \in Procs :
        /\ req[p].op = "reset_password" /\ req[p].pc = "done"
        /\ req[p].status = 200
        /\ req[p].cur.loggedIn
        /\ ~users[req[p].uid].loggedIn
        /\ nAudio > 0 /\ nClones > 0


(***************************************************************************)
(* Properties of token validation, checked under SpecSession.              *)
(***************************************************************************)
ProtectedOps == {"logout", "force_logout", "character_usage", "update_settings"}

\* the request was refused by token_required: 401, no handler, no write
Refused(p) ==
    /\ req[p].pc = "done" /\ req[p].status = 401
    /\ req[p].uid = NoUid
    /\ req[p].loc.writes = 0
    /\ users = req[p].pre /\ codes = req[p].pre_codes

\* the header is absent, has no token part, or has another first word than
\* Bearer
NotBearer(header) ==
    \/ header.words = 0
    \/ header.words = 1
    \/ header.token = NoToken
    \/ header.scheme # "Bearer"

\* C15 as stated: a protected request whose Authorization header is absent,
\* carries no token part or does not use the Bearer scheme is refused with
\* 401 without the handler being run and without a store write, also when
\* the second word of the header is a valid, unexpired token.
BearerSchemeRequired ==
    \A p \in Procs :
        req[p].op \in ProtectedOps /\ NotBearer(req[p].in.header)
            => Refused(p)


\* the request presents, as second word of its header, a token login issued
Presents(p) ==
    /\ req[p].op \in ProtectedOps
    /\ req[p].in.header.words = 2
    /\ req[p].in.header.token \in tokens

\* C16: the token of a successful login expires 24 hours after the login;
\* a protected request that presents an issued token after its expiry is
\* refused with 401, and one that presents it before its expiry is admitted
\* as the token's account, whatever logins, logouts and settings updates
\* have happened since the token was issued.
TokenExpiry ==
    /\ \A p \in Procs :
          LoginDone(p) /\ req[p].status = 200
              => /\ req[p].loc.token.exp = req[p].at + 24
                 /\ req[p].loc.token \in tokens
    /\ \A p \in Procs :
          Presents(p) /\ req[p].at > req[p].in.header.token.exp
              => Refused(p)
    /\ \A p \in Procs :
          Presents(p) /\ req[p].at < req[p].in.header.token.exp
              => /\ req[p].uid = req[p].in.header.token.user_id
                 /\ req[p].status # 401

TokenExpiryWitness ==
    \E p \in Procs :
        /\ Presents(p) /\ req[p].in.header.scheme = "Bearer"
        /\ req[p].at = req[p].in.header.token.exp + 1
        /\ Refused(p)
        /\ \E t \in tokens : t.exp > req[p].in.header.token.exp


(***************************************************************************)
(* Properties of the settings, checked under SpecSettings.                 *)
(***************************************************************************)
\* C20: whatever register and update-settings requests have been answered,
\* accepted or refused, the stored voice_similarity, stability and
\* background_volume of every account lie between 0.0 and 1.0 (0 and 100
\* hundredths).
SettingsInRange ==
    \A u \in DOMAIN users :
        /\ 0 <= users[u].voice_similarity /\ users[u].voice_similarity <= 100
        /\ 0 <= users[u].stability /\ users[u].stability <= 100
        /\ 0 <= users[u].background_volume /\ users[u].background_volume <= 100

SettingsInRangeWitness ==
    \E p \in Procs :
        /\ req[p].op = "update_settings" /\ req[p].pc = "done"
        /\ req[p].status = 400
        /\ req[p].in.data.voice_similarity = Number(100)
        /\ req[p].in.data.background_volume = Number(101)
        /\ users[req[p].uid].username = Alice
        /\ users[req[p].uid].voice_similarity = 85
        /\ users[req[p].uid].stability = 0
        /\ users[req[p].uid].background_volume = 100


UpdateSettingsDone(p) == req[p].op = "update_settings" /\ req[p].pc = "done"

\* the value a stored field has after an accepted payload: the supplied one,
\* or the one it had
Supplied(x, old, new) == IF x.kind = "absent" THEN old ELSE new

\* C21: an update-settings request answered 400 leaves every account as it
\* was, also when some of its fields are valid; a request answered 200 sets
\* exactly the supplied settings fields to the supplied values and leaves
\* the other settings fields, the other fields of the account and the other
\* accounts as they were.
SettingsAllOrNothing ==
    \A p \in Procs :
        UpdateSettingsDone(p) /\ req[p].uid # NoUid
            => LET data == req[p].in.data
                   old == req[p].pre[req[p].uid]
               IN  IF req[p].status = 200
                   THEN users = [req[p].pre EXCEPT ![req[p].uid] =
                           [old EXCEPT
                              !.language = Supplied(data.language, @,
                                                    data.language.text),
                              !.voice_similarity =
                                  Supplied(data.voice_similarity, @,
                                           float(data.voice_similarity).value),
                              !.stability =
                                  Supplied(data.stability, @,
                                           float(data.stability).value),
                              !.add_background_sound =
                                  Supplied(data.add_background_sound, @,
                                           data.add_background_sound.flag),
                              !.background_volume =
                                  Supplied(data.background_volume, @,
                                           float(data.background_volume).value)]]
                   ELSE req[p].status = 400 /\ users = req[p].pre

SettingsAllOrNothingWitness ==
    \E p \in Procs :
        /\ UpdateSettingsDone(p) /\ req[p].status = 400
        /\ req[p].in.data.voice_similarity = Number(100)
        /\ req[p].in.data.stability = Number(0)
        /\ req[p].in.data.background_volume = Number(-1)
        /\ users[req[p].uid].voice_similarity = 85
        /\ users[req[p].uid].stability = 100
        /\ users = req[p].pre


(***************************************************************************)
(* Properties of the validation of generate-audio requests, checked under  *)
(* SpecValidation.                                                         *)
(***************************************************************************)
\* the request has no topic or no value as a string with content, or a
\* stability or similarity_boost that is not a number
InvalidAudioInput(p) ==
    \/ req[p].in.body \notin {"json", "form"}
    \/ req[p].in.topic_kind # "string" \/ ~HasContent(req[p].in.topic)
    \/ req[p].in.value_kind # "string" \/ ~HasContent(req[p].in.value)
    \/ req[p].in.stability.kind = "text"
    \/ req[p].in.similarity_boost.kind = "text"

\* C22 as stated: a generate-audio request whose topic or value is missing,
\* empty, not a string or blank, or whose stability or similarity_boost is
\* not numeric, is answered 400 with no call of the voice directory, the
\* generator or the synthesizer, and leaves the accounts as they were.
InputValidation ==
    \A p \in Procs :
        req[p].op = "generate_audio" /\ InvalidAudioInput(p)
            => /\ req[p].pc = "done" /\ req[p].status = 400
               /\ req[p].loc.dir_calls = 0 /\ req[p].loc.gen_calls = 0
               /\ req[p].loc.tts_calls = 0
               /\ users = req[p].pre


(***************************************************************************)
(* Properties of the voice selection, checked under SpecVoices.            *)
(***************************************************************************)
\* the request has chosen its voice
VoiceChosen(p) ==
    /\ req[p].op = "generate_audio"
    /\ req[p].pc \in {"quota", "filter", "text", "charge", "tts"}
       \/ (req[p].pc = "done" /\ req[p].status # 400)

\* the clones of the accounts other than u
ClonesOfOthers(u) ==
    {users[v].voice_clone_id : v \in DOMAIN users \ {u}} \ {NoVoice}

\* C23 as stated: a generate-audio request uses the voice_clone_id of its
\* account when the account has one and the process-wide default voice
\* otherwise; an account without a clone never gets the clone of another
\* account.
VoiceSelection ==
    \A p \in Procs :
        VoiceChosen(p)
            => IF req[p].cur.voice_clone_id # NoVoice
               THEN req[p].loc.voice = req[p].cur.voice_clone_id
               ELSE /\ req[p].loc.voice = ALEX_LATORRE_VOICE_ID
                    /\ req[p].loc.voice \notin ClonesOfOthers(req[p].uid)


(***************************************************************************)
(* Properties of the order of the steps of generate-audio, checked under   *)
(* Spec.                                                                   *)
(***************************************************************************)
\* the request has evaluated the quota
QuotaChecked(p) ==
    \/ req[p].pc \in {"filter", "text", "charge", "tts"}
    \/ req[p].pc = "done" /\ req[p].status = 429
    \/ req[p].pc = "done" /\ req[p].loc.filter_done

QuotaRefusalBeforeCost ==
    \A p \in Procs :
        req[p].op = "generate_audio"
            => /\ ( (AudioDone(p) /\ req[p].status = 429)
                      => /\ req[p].loc.gen_calls = 0
                         /\ req[p].loc.tts_calls = 0
                         /\ req[p].loc.tts_text = NoText )
               /\ ( (QuotaChecked(p) /\ OverQuota(p))
                      => /\ AudioDone(p) /\ req[p].status = 429
                         /\ req[p].loc.gen_calls = 0
                         /\ req[p].loc.tts_calls = 0 )

QuotaRefusalBeforeCostWitness ==
    \E p \in Procs :
        /\ AudioDone(p) /\ req[p].status = 429
        /\ GOOGLE_API_KEY
        /\ ~MentionsDenylisted(req[p].in.topic)
        /\ ~MentionsDenylisted(req[p].in.value)
        /\ req[p].loc.gen_calls = 0 /\ req[p].loc.tts_calls = 0


(***************************************************************************)
(* Properties of interleaved generate-audio requests, checked under        *)
(* SpecAudioConcurrent.                                                    *)
(***************************************************************************)
\* the request has written its charge
Charged(p) ==
    /\ req[p].op = "generate_audio"
    /\ req[p].pc = "tts" \/ (req[p].pc = "done" /\ req[p].loc.tts_calls = 1)

\* C26 as stated: when two generate-audio requests of one account that
\* started from the same stored count have both charged, the stored
\* charCount is that count plus the charges of both.
ChargesAtomic ==
    \A p, q \in Procs :
        ( /\ p # q /\ Charged(p) /\ Charged(q)
          /\ req[p].uid = req[q].uid
          /\ req[p].pre = req[q].pre )
        => users[req[p].uid].charCount =
               req[p].pre[req[p].uid].charCount
                   + generated_char_count(req[p].loc.text)
                   + generated_char_count(req[q].loc.text)


(***************************************************************************)
(* Properties of interleaved login requests, checked under                 *)
(* SpecLoginConcurrent.                                                    *)
(***************************************************************************)
\* C27 as stated: with no logout in between, at most one login request of
\* an account is answered with a token, whatever the interleaving; the
\* other one is answered 409.
SingleSessionInterleaved ==
    \A p, q \in Procs :
        ( /\ p # q
          /\ LoginDone(p) /\ req[p].status = 200
          /\ LoginDone(q) /\ req[q].uid = req[p].uid )
        => req[q].status = 409


(***************************************************************************)
(* Properties of generate-audio over the months, checked under SpecMonths. *)
(***************************************************************************)
\* q was refused for quota, and p is the next request of the account, made
\* in a later calendar month
FirstAfterRefusal(p, q) ==
    /\ p # q
    /\ AudioDone(q) /\ req[q].status = 429
    /\ req[p].op = "generate_audio" /\ req[p].uid = req[q].uid
    /\ req[p].pre = req[q].pre
    /\ req[p].at > req[q].at
    /\ <<month(req[p].at), year(req[p].at)>>
           # <<month(req[q].at), year(req[q].at)>>

\* C28 as stated: when a generate-audio request of an account, with or
\* without a stored lastCharReset, was refused for quota, the first request
\* of the account in a later calendar month resets the count to zero and is
\* not refused for quota.
EligibleAfterMonth ==
    \A p, q \in Procs :
        FirstAfterRefusal(p, q) /\ QuotaChecked(p)
            => /\ req[p].loc.count = 0
               /\ ~(AudioDone(p) /\ req[p].status = 429)
               /\ users[req[p].uid].lastCharReset = req[p].at


(***************************************************************************)
(* Properties of the stored count, checked under Spec.                     *)
(***************************************************************************)
\* the lengths of the texts a request can be charged for
TextLengths ==
    GenLens
        \cup {inappropriate_fallback_text(l).len : l \in Languages}
        \cup {fallback_message(l, strip(t), strip(v)).len :
                 l \in Languages, t \in Topics, v \in Values}

MaxTextLength == CHOOSE n \in TextLengths : \A m \in TextLengths : m <= n

\* C29: with one generate-audio request at a time, a request is charged
\* only when it found the reset-aware count below 5000, and the stored
\* count is then that count plus half the length of its text; so once the
\* count is at 5000 or more nothing is charged until the month rolls over,
\* and the stored count never exceeds 4999 plus half the longest text.
BoundedOvershoot ==
    /\ \A u \in DOMAIN users :
          users[u].charCount <= 4999 + (MaxTextLength \div 2)
    /\ \A p \in Procs :
          Charged(p)
              => /\ req[p].loc.count < 5000
                 /\ req[p].loc.count =
                       ResetAwareCount(req[p].pre[req[p].uid], req[p].at)
                 /\ users[req[p].uid].charCount
                       = req[p].loc.count + (req[p].loc.text.len \div 2)

BoundedOvershootWitness ==
    \E p \in Procs :
        /\ Charged(p) /\ AudioDone(p)
        /\ req[p].loc.count = 4999
        /\ req[p].loc.text.len = MaxTextLength
        /\ users[req[p].uid].charCount = 4999 + (MaxTextLength \div 2)
        /\ users[req[p].uid].charCount > 5000


(***************************************************************************)
(* Properties of the figures of GET /character-usage, checked under        *)
(* SpecUsage.                                                              *)
(***************************************************************************)
\* C30: character-usage reports as used_characters the count that the quota
\* check of generate-audio would use at the same instant (0 when
\* lastCharReset is in another calendar month, the stored charCount
\* otherwise) and as remaining_characters the rest up to 5000, never less
\* than 0.
UsageReport ==
    \A p \in Procs :
        UsageDone(p)
            => LET acc == req[p].pre[req[p].uid]
                   used == req[p].loc.used_characters
                   remaining == req[p].loc.remaining_characters
               IN  /\ used = IF needs_reset(acc.lastCharReset, req[p].at)
                             THEN 0 ELSE acc.charCount
                   /\ remaining >= 0
                   /\ (used <= 5000) => (used + remaining = 5000)
                   /\ (used > 5000) => (remaining = 0)

UsageReportWitness ==
    \E p \in Procs :
        /\ UsageDone(p)
        /\ req[p].at > 0
        /\ req[p].pre[req[p].uid].lastCharReset = NoDate
        /\ req[p].loc.used_characters = 5002
        /\ req[p].loc.remaining_characters = 0


(***************************************************************************)
(* Properties of the default-voice cache, checked under SpecCache.         *)
(***************************************************************************)
\* the step in which worker p queries the directory of the voice service
QueriesDirectory(p) ==
    /\ req[p].op = "generate_audio" /\ req[p].pc = "directory"
    /\ req'[p].pc # "directory"

\* the step in which worker p, resolving the voice of an account without a
\* clone, finds the cache empty
FindsCacheEmpty(p) ==
    /\ req[p].op = "generate_audio" /\ req[p].pc \in {"voice", "cache"}
    /\ req'[p].pc # req[p].pc
    /\ req[p].cur.voice_clone_id = NoVoice
    /\ ALEX_LATORRE_VOICE_ID = NoVoice

\* C31: the default voice identifier is immutable once set.  From the moment
\* the cache holds an identifier, no step changes it and no step queries the
\* directory of the voice service, however the directory changes; and while
\* the cache is empty, a resolution for an account without a clone goes on
\* to a new lookup.
CacheImmutable ==
    [][/\ ALEX_LATORRE_VOICE_ID # NoVoice
            => /\ ALEX_LATORRE_VOICE_ID' = ALEX_LATORRE_VOICE_ID
               /\ \A p \in Procs : ~QueriesDirectory(p)
       /\ \A p \in Procs :
             FindsCacheEmpty(p) => req'[p].pc \in {"cache", "directory"}]_vars


(***************************************************************************)
(* Properties of generate_voice_clone, checked under SpecClones.           *)
(***************************************************************************)
GenerateCloneDone(p) == req[p].op = "generate_voice_clone" /\ req[p].pc = "done"

\* the request of worker p asks to overwrite the clone its account owns
OverwritesClone(p) ==
    /\ req[p].op = "generate_voice_clone"
    /\ req[p].in.overwrite
    /\ req[p].pre[req[p].uid].voice_clone_id # NoVoice

\* C32: generate-voice-clone with overwrite=true on an account that owns
\* clone X attempts the external deletion of X before it submits the sample
\* to the cloning service; whether the deletion succeeds or fails, the
\* cloning call is made for a valid sample; and when cloning succeeds the
\* stored voice_clone_id is the new identifier, not X.
OverwriteReplacesClone ==
    \A p \in Procs :
        OverwritesClone(p) =>
            LET r == req[p]
                X == r.pre[r.uid].voice_clone_id
            IN  /\ r.pc \in {"add", "store"} => r.loc.delete_calls = 1
                /\ r.loc.add_calls = 1 => r.loc.delete_calls = 1
                /\ r.pc = "done" =>
                      /\ r.loc.delete_calls = 1
                      /\ check_audio_file(r.in.audio) = 0 => r.loc.add_calls = 1
                      /\ r.status = 200 =>
                            /\ users[r.uid].voice_clone_id = r.loc.new_id
                            /\ r.loc.voice_clone_id = r.loc.new_id
                            /\ r.loc.new_id # X

\* an overwrite whose deletion of the old clone failed and whose cloning
\* succeeded: the account holds the new identifier
OverwriteReplacesCloneWitness ==
    \E p \in Procs :
        /\ OverwritesClone(p) /\ GenerateCloneDone(p)
        /\ req[p].loc.delete_calls = 1 /\ ~req[p].loc.delete_ok
        /\ req[p].loc.add_calls = 1 /\ req[p].status = 200
        /\ users[req[p].uid].voice_clone_id = req[p].loc.new_id
        /\ users[req[p].uid].voice_clone_id # req[p].pre[req[p].uid].voice_clone_id


\* C36: a generate-voice-clone request that is answered 400 because the
\* audio file is missing or has an empty filename has no effect, whatever
\* the overwrite flag: it deleted no voice of the voice service and every
\* account, with its voice_clone_id, is as it was before the request.
RejectedCloneNoEffect ==
    \A p \in Procs :
        ( /\ GenerateCloneDone(p)
          /\ req[p].status = 400
          /\ check_audio_file(req[p].in.audio) = 400 )
        => /\ ~req[p].loc.delete_ok
           /\ users = req[p].pre

\* the request of worker p is a clone request that has ended
CloneRequestDone(p) ==
    /\ req[p].op \in {"generate_voice_clone", "delete_voice_clone"}
    /\ req[p].pc = "done"

\* C37 (checked under SpecCloneLife): after any sequence of
\* generate-voice-clone and delete-voice-clone requests, each run to its
\* end, with every call of the voice service free to succeed or fail, no
\* account's voice_clone_id names a voice this service has deleted: a
\* request whose deletion succeeded leaves the account without the deleted
\* identifier, and between requests every stored identifier is that of a
\* voice that exists at the voice service.
StoredCloneExists ==
    /\ \A p \in Procs :
          CloneRequestDone(p) /\ req[p].loc.delete_ok
              => users[req[p].uid].voice_clone_id
                     # req[p].pre[req[p].uid].voice_clone_id
    /\ (\A q \in Procs : Free(q))
          => \A u \in DOMAIN users :
                \/ users[u].voice_clone_id = NoVoice
                \/ voice_exists(users[u].voice_clone_id)

\* an overwrite whose deletion succeeded and whose cloning call failed: the
\* account is left without a clone
StoredCloneExistsWitness ==
    \E p \in Procs :
        /\ GenerateCloneDone(p) /\ req[p].in.overwrite
        /\ req[p].loc.delete_ok /\ req[p].loc.add_calls = 1
        /\ req[p].status # 200
        /\ req[p].pre[req[p].uid].voice_clone_id # NoVoice
        /\ users[req[p].uid].voice_clone_id = NoVoice
        /\ ~voice_exists(req[p].pre[req[p].uid].voice_clone_id)

(***************************************************************************)
(* Properties of the external calls of generate-audio, checked under       *)
(* SpecGenerators.                                                         *)
(***************************************************************************)
AudioRequestOf(p) == req[p].op \in {"generate_audio", "prebaalex_generate_audio"}

Bearer(token) == [words |-> 2, scheme |-> "Bearer", token |-> token]

\* the request of worker p went through token_required with a token that
\* login issued
PresentedIssuedToken(p) ==
    /\ req[p].op \in {"logout", "force_logout", "character_usage"}
    /\ req[p].in.header.token \in tokens

\* C34: token validation never consults the loggedIn flag.  A token issued
\* by a login authenticates every request that presents it until its
\* expiry, whatever the flag of its account is after logout, force-logout or
\* reset-password; so all unexpired tokens of an account, also two from the
\* sequence login, logout, login, authenticate at the same time.
TokenOutlivesSession ==
    /\ \A token \in tokens :
          ~jwt_expired(token.exp, now, FALSE)
              => token_required(Bearer(token), users, now, FALSE)
                    = [status |-> 0, uid |-> token.user_id]
    /\ \A p \in Procs :
          PresentedIssuedToken(p) =>
              /\ req[p].pc = "done" =>
                    (req[p].status = 401
                        <=> jwt_expired(req[p].in.header.token.exp, req[p].at, FALSE))
              /\ req[p].pc # "done" => req[p].uid = req[p].in.header.token.user_id

\* after login, logout, login and a second logout: a request with the first
\* token is answered 200 although the account's flag was false, while the
\* second token of the same account authenticates as well
TokenOutlivesSessionWitness ==
    \E p \in Procs, other \in tokens :
        /\ PresentedIssuedToken(p) /\ req[p].pc = "done" /\ req[p].status = 200
        /\ req[p].op = "character_usage"
        /\ req[p].at = now
        /\ ~req[p].pre[req[p].uid].loggedIn
        /\ other # req[p].in.header.token
        /\ other.user_id = req[p].uid
        /\ token_required(Bearer(other), users, now, FALSE).status = 0


\* every token login has issued for account u has expired
AllTokensExpired(u) ==
    \A token \in tokens : token.user_id = u => now > token.exp

\* C35: session lock-out.  While the loggedIn flag of an account is true,
\* every login with the account's credentials is answered 409 and leaves
\* the flag true; the flag stays true until a logout, a force-logout or a
\* reset-password of that account writes it, the passing of time and the
\* expiry of the token do not clear it, and once every token of the account
\* has expired only reset-password clears it.
SessionLockout ==
    /\ [](\A p \in Procs : \A u \in LoginTarget(p) :
             LoginDone(p) /\ req[p].pre[u].loggedIn /\ PasswordMatches(p, u)
                 => req[p].status = 409 /\ users[u].loggedIn)
    /\ [][\A u \in DOMAIN users :
             users[u].loggedIn =>
                 /\ ~users'[u].loggedIn
                       => Revokes(u, {"logout", "force_logout", "reset_password"})
                 /\ now' # now => users'[u].loggedIn
                 /\ AllTokensExpired(u) /\ ~users'[u].loggedIn
                       => Revokes(u, {"reset_password"})]_vars

\* an account whose flag was true and whose only token had expired, freed
\* by a reset-password request
SessionLockoutWitness ==
    \E p \in Procs :
        /\ req[p].op = "reset_password" /\ req[p].pc = "done"
        /\ req[p].status = 200
        /\ req[p].pre[req[p].uid].loggedIn
        /\ ~users[req[p].uid].loggedIn
        /\ \E token \in tokens : token.user_id = req[p].uid
        /\ \A token \in tokens :
              token.user_id = req[p].uid => req[p].at > token.exp


(***************************************************************************)
(* Properties of the writes of the token-protected handlers, checked under *)
(* SpecEndpoints.                                                          *)
(***************************************************************************)
AccountOps ==
    {"generate_audio", "character_usage", "update_settings",
     "generate_voice_clone", "delete_voice_clone", "logout", "force_logout"}

\* the step is one of the request of worker p, running a protected handler
StepOfAccountRequest(p) ==
    /\ req[p].op \in AccountOps
    /\ req[p].pc \notin {"idle", "done"}
    /\ req'[p] # req[p]

\* C38: account isolation.  A step of a generate-audio, character-usage,
\* update-settings, generate-voice-clone, delete-voice-clone, logout or
\* force-logout request writes only to the account of its token: every
\* other account's record is the same after the step as before it, and no
\* account is added or removed.
AccountIsolation ==
    [][\A p \in Procs :
          StepOfAccountRequest(p)
              => /\ DOMAIN users' = DOMAIN users
                 /\ \A v \in DOMAIN users \ {req[p].uid} : users'[v] = users[v]]_vars

\* a generate-audio request of the first account has charged it while a
\* second account exists, which is as it was
AccountIsolationWitness ==
    \E p \in Procs :
        /\ AudioDone(p) /\ req[p].uid = "u1"
        /\ "u2" \in DOMAIN req[p].pre
        /\ users["u1"].charCount # req[p].pre["u1"].charCount
        /\ users["u2"] = req[p].pre["u2"]


(***************************************************************************)
(* Properties of reset_password, checked under SpecReset.                  *)
(***************************************************************************)
ResetDone(p) == req[p].op = "reset_password" /\ req[p].pc = "done"

\* the accounts that had the email of the reset-password request of p
ResetTarget(p) ==
    {u \in DOMAIN req[p].pre : req[p].pre[u].email = req[p].in.email}

\* the code of the request existed and had not been used for a reset
CodeOpenForReset(p) ==
    /\ req[p].in.activation_code \in DOMAIN req[p].pre_codes
    /\ ~req[p].pre_codes[req[p].in.activation_code].used_for_password_reset

CodeClosedForReset(p) ==
    /\ req[p].in.activation_code \in DOMAIN req[p].pre_codes
    /\ req[p].pre_codes[req[p].in.activation_code].used_for_password_reset

\* C39: reset-password is gated only by the existence of the code and its
\* used_for_password_reset flag.  For an existing account's email and a
\* code that exists and has not been used for a reset, a request with a new
\* password succeeds, replaces the account's password and sets its loggedIn
\* to false, whether the code is unused, was consumed by that account's
\* registration or by another account's; it marks the code, the mark is
\* never removed, and a request with a marked code is refused and changes
\* no account.
ResetGatedByCodeOnly ==
    /\ [](\A p \in Procs :
             ResetDone(p) =>
                 /\ \A u \in ResetTarget(p) :
                       CodeOpenForReset(p) /\ req[p].in.new_password # ""
                           => /\ req[p].status = 200
                              /\ users[u].password
                                    = bcrypt_hashpw(req[p].in.new_password)
                              /\ ~users[u].loggedIn
                              /\ codes[req[p].in.activation_code]
                                    .used_for_password_reset
                 /\ CodeClosedForReset(p)
                       => req[p].status = 400 /\ users = req[p].pre)
    /\ [][\A c \in DOMAIN codes :
             codes[c].used_for_password_reset
                 => c \in DOMAIN codes' /\ codes'[c].used_for_password_reset]_vars

\* the password of a logged-in account replaced with a code that another
\* account's registration had consumed
ResetGatedByCodeOnlyWitness ==
    \E p \in Procs : \E u \in ResetTarget(p) :
        /\ ResetDone(p) /\ req[p].status = 200
        /\ req[p].pre_codes[req[p].in.activation_code].used
        /\ req[p].pre_codes[req[p].in.activation_code].used_by # u
        /\ req[p].pre[u].loggedIn /\ ~users[u].loggedIn
        /\ users[u].password # req[p].pre[u].password

====
